---- MODULE Spec2Model ----
(***************************************************************************)
(* Model of the schema construction of cedar-policy-validator              *)
(* (src/cedar-policy-validator/src/schema.rs).                             *)
(*                                                                         *)
(* ValidatorSchema::from_schema_fragments is modelled as a state machine   *)
(* whose steps are the phases of the function: merging the namespace       *)
(* definitions, inverting the parent relations, building the entity types  *)
(* and the action ids, closing the hierarchies, and checking for           *)
(* undeclared references.  Iteration over a std HashMap has no defined     *)
(* order, so a step that visits "the next entry" of a HashMap picks any    *)
(* entry not yet visited.                                                  *)
(***************************************************************************)
EXTENDS Integers, Sequences, FiniteSets, Bags, TLC

(***************************************************************************)
(* Values.                                                                 *)
(*   Name       a sequence of identifiers, <<"Foo", "Bar", "Baz">> for     *)
(*              Foo::Bar::Baz                                              *)
(*   EntityType Concrete(Name) or Unspecified                              *)
(*   EntityUID  an entity type and an id                                   *)
(*   Type       a record tagged Bool, Long, String, Set, Record, Entity,   *)
(*              Extension; TypeDef is a reference to a common type that    *)
(*              resolve_type_defs has still to substitute                  *)
(***************************************************************************)
Concrete(name) == [kind |-> "Concrete", name |-> name]

Unspecified == [kind |-> "Unspecified", name |-> <<>>]

EUID(ty, id) == [ty |-> Concrete(ty), id |-> id]

Some(v) == [some |-> TRUE, val |-> v]

None == [some |-> FALSE]

Ok(v) == [ok |-> TRUE, val |-> v]

Err(kind, arg) == [ok |-> FALSE, err |-> [kind |-> kind, arg |-> arg]]

EmptyMap == <<>>

PrimLong == [tag |-> "Long"]

PrimBool == [tag |-> "Bool"]

PrimString == [tag |-> "String"]

SetOf(elem) == [tag |-> "Set", element_type |-> Some(elem)]

EmptySetType == [tag |-> "Set", element_type |-> None]

RecordOf(attrs) == [tag |-> "Record", attrs |-> attrs, open |-> FALSE]

EntityLub(names) == [tag |-> "Entity", lub |-> names]

ExtensionType(name) == [tag |-> "Extension", name |-> name]

TypeDef(name) == [tag |-> "TypeDef", name |-> name]

Required(ty) == [attr_type |-> ty, is_required |-> TRUE]

Optional(ty) == [attr_type |-> ty, is_required |-> FALSE]

(***************************************************************************)
(* Name::to_string joins the identifiers with "::"; EntityUID::to_string   *)
(* is the type, "::" and the quoted id.                                    *)
(***************************************************************************)
RECURSIVE NameToString(_)
NameToString(name) ==
    IF Len(name) = 0 THEN ""
    ELSE IF Len(name) = 1 THEN name[1]
    ELSE name[1] \o "::" \o NameToString(Tail(name))

EntityTypeToString(ty) ==
    IF ty.kind = "Unspecified" THEN "<Unspecified>" ELSE NameToString(ty.name)

EuidToString(euid) == EntityTypeToString(euid.ty) \o "::\"" \o euid.id \o "\""

(***************************************************************************)
(* HashMap helpers.                                                        *)
(***************************************************************************)
MapUnion(f, g) ==
    [k \in DOMAIN f \cup DOMAIN g |-> IF k \in DOMAIN f THEN f[k] ELSE g[k]]

MapRemove(f, k) == [j \in DOMAIN f \ {k} |-> f[j]]

MapInsert(f, k, v) == [j \in DOMAIN f \cup {k} |-> IF j = k THEN v ELSE f[j]]

(***************************************************************************)
(* resolve_type_defs: substitute the common-type references of a type by   *)
(* their definitions in the aggregate common-type map.  UnresolvedIn is    *)
(* the set of referenced names the map does not define.                    *)
(***************************************************************************)
RECURSIVE UnresolvedIn(_, _)
UnresolvedIn(ty, type_defs) ==
    IF ty.tag = "TypeDef" THEN
        IF ty.name \in DOMAIN type_defs THEN {} ELSE {ty.name}
    ELSE IF ty.tag = "Set" THEN
        IF ty.element_type.some THEN UnresolvedIn(ty.element_type.val, type_defs) ELSE {}
    ELSE IF ty.tag = "Record" THEN
        UNION {UnresolvedIn(ty.attrs[a].attr_type, type_defs) : a \in DOMAIN ty.attrs}
    ELSE {}

RECURSIVE Substitute(_, _)
Substitute(ty, type_defs) ==
    IF ty.tag = "TypeDef" THEN type_defs[ty.name]
    ELSE IF ty.tag = "Set" THEN
        IF ty.element_type.some
        THEN [ty EXCEPT !.element_type = Some(Substitute(ty.element_type.val, type_defs))]
        ELSE ty
    ELSE IF ty.tag = "Record" THEN
        [ty EXCEPT !.attrs =
            [a \in DOMAIN ty.attrs |->
                [ty.attrs[a] EXCEPT !.attr_type = Substitute(ty.attrs[a].attr_type, type_defs)]]]
    ELSE ty

resolve_type_defs(ty, type_defs) ==
    LET missing == UnresolvedIn(ty, type_defs) IN
    IF missing # {}
    THEN Err("UndeclaredCommonTypes", {NameToString(n) : n \in missing})
    ELSE Ok(Substitute(ty, type_defs))

(***************************************************************************)
(* record_attributes_or_none: the attributes of a record type, None for    *)
(* any other type.                                                         *)
(***************************************************************************)
\* a conversion that takes any other type for the empty record
record_attributes_or_empty(ty) ==
    IF ty.tag = "Record" THEN Some(ty.attrs) ELSE Some(EmptyMap)

record_attributes_or_none(ty) ==
    IF ty.tag = "Record" THEN Some(ty.attrs) ELSE None

(***************************************************************************)
(* The inversion of a `parents` relation into a `children` relation: a     *)
(* map whose keys are the names some declaration lists as a parent.        *)
(***************************************************************************)
\* an inversion that records no children
InvertParents_no_children(decls) == <<>>

InvertParents(decls) ==
    LET parents == UNION {decls[k].parents : k \in DOMAIN decls} IN
    [p \in parents |-> {k \in DOMAIN decls : p \in decls[k].parents}]

\* a removal that forgets what it removed
RemoveOrDefault_empty(children, name) == {}

RemoveOrDefault(children, name) ==
    IF name \in DOMAIN children THEN children[name] ELSE {}

(***************************************************************************)
(* compute_tc: replace every node's descendants by everything reachable    *)
(* over descendants edges; with enforce_dag, fail when a node reaches      *)
(* itself.                                                                 *)
(***************************************************************************)
RECURSIVE Reach(_, _)
Reach(nodes, set) ==
    LET next == set \cup UNION {nodes[k].descendants : k \in set \cap DOMAIN nodes} IN
    IF next = set THEN set ELSE Reach(nodes, next)

compute_tc_internal(nodes) ==
    [k \in DOMAIN nodes |->
        [nodes[k] EXCEPT !.descendants = Reach(nodes, nodes[k].descendants)]]

enforce_dag_from_tc(nodes) ==
    \A k \in DOMAIN nodes : k \notin nodes[k].descendants

compute_tc(nodes, enforce_dag) ==
    LET closed == compute_tc_internal(nodes) IN
    IF enforce_dag /\ ~enforce_dag_from_tc(closed)
    THEN Err("CycleInActionHierarchy", {})
    ELSE Ok(closed)

(***************************************************************************)
(* check_undeclared_in_type: the names (as strings) of the entity types    *)
(* that appear in a type and are no key of entity_types.                   *)
(***************************************************************************)
\* a check that does not look into set types
RECURSIVE check_undeclared_in_type_no_set(_, _)
check_undeclared_in_type_no_set(ty, entity_types) ==
    IF ty.tag = "Entity" THEN
        {NameToString(n) : n \in {m \in ty.lub : m \notin DOMAIN entity_types}}
    ELSE IF ty.tag = "Record" THEN
        UNION {check_undeclared_in_type_no_set(ty.attrs[a].attr_type, entity_types) :
                 a \in DOMAIN ty.attrs}
    ELSE {}

RECURSIVE check_undeclared_in_type(_, _)
check_undeclared_in_type(ty, entity_types) ==
    IF ty.tag = "Entity" THEN
        {NameToString(n) : n \in {m \in ty.lub : m \notin DOMAIN entity_types}}
    ELSE IF ty.tag = "Record" THEN
        UNION {check_undeclared_in_type(ty.attrs[a].attr_type, entity_types) :
                 a \in DOMAIN ty.attrs}
    ELSE IF ty.tag = "Set" /\ ty.element_type.some THEN
        check_undeclared_in_type(ty.element_type.val, entity_types)
    ELSE {}

UndeclaredInAttributes(attrs, entity_types) ==
    UNION {check_undeclared_in_type(attrs[a].attr_type, entity_types) : a \in DOMAIN attrs}

\* appliesTo loops that take Unspecified for one more undeclared type
UndeclaredInAppliesTo_with_unspecified(types, entity_types) ==
    {EntityTypeToString(t) :
        t \in {u \in types : u.kind # "Concrete" \/ u.name \notin DOMAIN entity_types}}

UndeclaredInAppliesTo(types, entity_types) ==
    {NameToString(t.name) :
        t \in {u \in types : u.kind = "Concrete" /\ u.name \notin DOMAIN entity_types}}

(***************************************************************************)
(* check_for_undeclared: the undeclared entity types are the undeclared    *)
(* parents left over by the inversion, and the undeclared names in the     *)
(* attribute types of the entity types, in the contexts and in the         *)
(* appliesTo lists of the actions.  The entity type error comes first.     *)
(***************************************************************************)
\* a check that does not look at the actions
UndeclaredEntities_no_actions(entity_types, undeclared_parent_entities, action_ids) ==
    {NameToString(n) : n \in undeclared_parent_entities}
    \cup UNION {UndeclaredInAttributes(entity_types[e].attributes, entity_types) :
                  e \in DOMAIN entity_types}

UndeclaredEntities(entity_types, undeclared_parent_entities, action_ids) ==
    {NameToString(n) : n \in undeclared_parent_entities}
    \cup UNION {UndeclaredInAttributes(entity_types[e].attributes, entity_types) :
                  e \in DOMAIN entity_types}
    \cup UNION {UndeclaredInAttributes(action_ids[a].context, entity_types) :
                  a \in DOMAIN action_ids}
    \cup UNION {UndeclaredInAppliesTo(action_ids[a].applies_to.principal_types, entity_types) :
                  a \in DOMAIN action_ids}
    \cup UNION {UndeclaredInAppliesTo(action_ids[a].applies_to.resource_types, entity_types) :
                  a \in DOMAIN action_ids}

UndeclaredActionIds(undeclared_parent_actions) ==
    {EuidToString(a) : a \in undeclared_parent_actions}

\* a check that reports the undeclared actions first
check_for_undeclared_actions_first(entity_types, undeclared_parent_entities, action_ids, undeclared_parent_actions) ==
    LET undeclared_e ==
            UndeclaredEntities(entity_types, undeclared_parent_entities, action_ids)
        undeclared_a == UndeclaredActionIds(undeclared_parent_actions)
    IN  IF undeclared_a # {} THEN Err("UndeclaredActions", undeclared_a)
        ELSE IF undeclared_e # {} THEN Err("UndeclaredEntityTypes", undeclared_e)
        ELSE Ok({})

check_for_undeclared(entity_types, undeclared_parent_entities, action_ids, undeclared_parent_actions) ==
    LET undeclared_e ==
            UndeclaredEntities(entity_types, undeclared_parent_entities, action_ids)
        undeclared_a == UndeclaredActionIds(undeclared_parent_actions)
    IN  IF undeclared_e # {} THEN Err("UndeclaredEntityTypes", undeclared_e)
        ELSE IF undeclared_a # {} THEN Err("UndeclaredActions", undeclared_a)
        ELSE Ok({})

(***************************************************************************)
(* The declarations of a ValidatorNamespaceDef, names already qualified.   *)
(***************************************************************************)
EntityDecl(parents, shape) == [parents |-> parents, attributes |-> shape]

ActionDecl(parents, principals, resources, context, attributes) ==
    [parents |-> parents,
     applies_to |-> [principal_types |-> principals, resource_types |-> resources],
     context |-> context,
     attribute_types |-> [a \in DOMAIN attributes |-> PrimString],
     attributes |-> attributes]

NsDef(namespace, type_defs, entity_types, actions) ==
    [namespace |-> namespace, type_defs |-> type_defs,
     entity_types |-> entity_types, actions |-> actions]

NoShape == RecordOf(EmptyMap)

User == <<"User">>

Group == <<"Group">>

Photo == <<"Photo">>

Album == <<"Album">>

Admin == <<"Admin">>

Action(id) == EUID(<<"Action">>, id)

(***************************************************************************)
(* The fragments the runs are drawn from.  They are the schemas of the     *)
(* unit tests of schema.rs, split so that two fragments can complete,      *)
(* contradict or duplicate one another.                                    *)
(***************************************************************************)
\* test_from_schema_file
PhotoApp ==
    << NsDef(<<>>, EmptyMap,
         MapUnion(MapUnion(User :> EntityDecl({Group}, NoShape),
                           Group :> EntityDecl({}, NoShape)),
                  MapUnion(Photo :> EntityDecl({Album}, NoShape),
                           Album :> EntityDecl({}, NoShape))),
         Action("view_photo") :>
            ActionDecl({}, {Concrete(User), Concrete(Group)}, {Concrete(Photo)},
                       NoShape, EmptyMap)) >>

\* the same schema with Group a member of Admin and view_photo a member of
\* manage, neither of which it declares
PhotoAppAdmin ==
    << NsDef(<<>>, EmptyMap,
         MapUnion(MapUnion(User :> EntityDecl({Group}, NoShape),
                           Group :> EntityDecl({Admin}, NoShape)),
                  MapUnion(Photo :> EntityDecl({Album}, NoShape),
                           Album :> EntityDecl({}, NoShape))),
         Action("view_photo") :>
            ActionDecl({Action("manage")}, {Concrete(User), Concrete(Group)},
                       {Concrete(Photo)}, NoShape, EmptyMap)) >>

\* Admin, with entity references nested in a set and in a record, and the
\* action groups manage and administer
AdminDecl ==
    << NsDef(<<>>, EmptyMap,
         Admin :> EntityDecl({},
            RecordOf(MapUnion(MapUnion("owner" :> Required(EntityLub({User})),
                                       "groups" :> Optional(SetOf(EntityLub({Group})))),
                              "meta" :> Required(RecordOf("album" :> Required(EntityLub({Album}))))))),
         MapUnion(Action("manage") :>
                      ActionDecl({Action("administer")}, {Unspecified}, {Unspecified},
                                 RecordOf("actor" :> Required(EntityLub({Admin}))),
                                 EmptyMap),
                  Action("administer") :>
                      ActionDecl({}, {Unspecified}, {Unspecified}, NoShape, EmptyMap))) >>

\* Admin as a member of User: closes a cycle User -> Group -> Admin -> User
AdminCycle ==
    << NsDef(<<>>, EmptyMap, Admin :> EntityDecl({User}, NoShape),
             Action("manage") :>
                ActionDecl({}, {Unspecified}, {Unspecified}, NoShape, EmptyMap)) >>

\* same_type_different_namespace, same_action_different_namespace
SameBaseName ==
    << NsDef(<<"Foo", "Bar">>, EmptyMap,
             <<"Foo", "Bar", "Baz">> :> EntityDecl({}, NoShape),
             EUID(<<"Foo", "Bar", "Action">>, "Baz") :>
                ActionDecl({}, {Unspecified}, {Unspecified}, NoShape, EmptyMap)),
       NsDef(<<"Bar", "Foo">>, EmptyMap,
             <<"Bar", "Foo", "Baz">> :> EntityDecl({<<"Foo", "Bar", "Baz">>}, NoShape),
             EUID(<<"Bar", "Foo", "Action">>, "Baz") :>
                ActionDecl({}, {Concrete(<<"Foo", "Bar", "Baz">>)}, {Unspecified},
                           RecordOf("target" :>
                               Required(SetOf(EntityLub({<<"Bar", "Foo", "Baz">>})))),
                           EmptyMap)) >>

\* cross_fragment_type, first fragment
CommonTypesA ==
    << NsDef(<<"A">>,
             MapUnion(<<"A", "MyLong">> :> PrimLong,
                      <<"A", "Owner">> :> EntityLub({<<"A", "User">>})),
             EmptyMap, EmptyMap) >>

\* cross_fragment_type, second fragment, with an entity reference behind a
\* common type
UserA ==
    << NsDef(<<"A">>, EmptyMap,
             <<"A", "User">> :>
                EntityDecl({},
                    RecordOf(MapUnion("a" :> Required(TypeDef(<<"A", "MyLong">>)),
                                      "boss" :> Optional(TypeDef(<<"A", "Owner">>))))),
             EmptyMap) >>

\* shape_not_record, with a second entity type whose shape is no record
ShapeNotRecord ==
    << NsDef(<<"B">>, <<"B", "MyLong">> :> PrimLong,
             MapUnion(<<"B", "User">> :> EntityDecl({}, TypeDef(<<"B", "MyLong">>)),
                      <<"B", "Team">> :> EntityDecl({}, SetOf(PrimString))),
             EmptyMap) >>

\* an action whose context is a common type defined by another fragment
ContextNotRecord ==
    << NsDef(<<"C">>, EmptyMap, EmptyMap,
             EUID(<<"C", "Action">>, "act") :>
                ActionDecl({}, {Unspecified}, {Unspecified},
                           TypeDef(<<"A", "MyLong">>), EmptyMap)) >>

\* test_from_schema_file_action_cycle1
ActionCycle1 ==
    << NsDef(<<>>, EmptyMap, EmptyMap,
             Action("view_photo") :>
                ActionDecl({Action("view_photo")}, {Unspecified}, {Unspecified},
                           NoShape, EmptyMap)) >>

\* test_from_schema_file_action_cycle2
ActionCycle2 ==
    << NsDef(<<>>, EmptyMap, EmptyMap,
         MapUnion(MapUnion(Action("view_photo") :>
                               ActionDecl({Action("edit_photo")}, {Unspecified},
                                          {Unspecified}, NoShape, EmptyMap),
                           Action("edit_photo") :>
                               ActionDecl({Action("delete_photo")}, {Unspecified},
                                          {Unspecified}, NoShape, EmptyMap)),
                  MapUnion(Action("delete_photo") :>
                               ActionDecl({Action("view_photo")}, {Unspecified},
                                          {Unspecified}, NoShape, EmptyMap),
                           Action("other_action") :>
                               ActionDecl({Action("edit_photo")}, {Unspecified},
                                          {Unspecified}, NoShape, EmptyMap)))) >>

\* action_entity_hierarchy, action_entity_attribute
ActionHierarchy ==
    << NsDef(<<>>, EmptyMap, EmptyMap,
         MapUnion(Action("read") :>
                      ActionDecl({}, {Unspecified}, {Unspecified}, NoShape,
                                 "attr" :> "foo"),
                  MapUnion(Action("view") :>
                               ActionDecl({Action("read")}, {Unspecified},
                                          {Unspecified}, NoShape, EmptyMap),
                           Action("photo_action") :>
                               ActionDecl({Action("view")}, {Unspecified},
                                          {Unspecified}, NoShape, EmptyMap)))) >>

\* test_from_schema_file_undefined_action, with entity references in the
\* appliesTo list and in the context
UndefinedAction ==
    << NsDef(<<>>, EmptyMap, EmptyMap,
             Action("share") :>
                ActionDecl({Action("photo_action")}, {Concrete(User)}, {Unspecified},
                           RecordOf("target" :> Required(SetOf(EntityLub({Group})))),
                           EmptyMap)) >>

\* test_from_schema_file_undefined_entities: undeclared entity types in a
\* memberOfTypes list, in an attribute type and in an appliesTo list
UndefinedEntities ==
    << NsDef(<<"N">>, EmptyMap,
             <<"N", "User">> :>
                EntityDecl({<<"N", "Grop">>},
                           RecordOf("photo" :> Required(EntityLub({<<"N", "Phoot">>})))),
             EUID(<<"N", "Action">>, "view") :>
                ActionDecl({}, {Concrete(<<"N", "Usr">>)}, {Concrete(<<"N", "User">>)},
                           NoShape, EmptyMap)) >>

Fragments ==
    {PhotoApp, PhotoAppAdmin, AdminDecl, AdminCycle, SameBaseName, CommonTypesA,
     UserA, ShapeNotRecord, ContextNotRecord, ActionCycle1, ActionCycle2,
     ActionHierarchy, UndefinedAction, UndefinedEntities}

\* the number of fragments passed to one call of from_schema_fragments
MaxFragments == 2

(***************************************************************************)
(* A SchemaFragment as it is written: a map from a namespace to the        *)
(* declarations of that namespace, whose names are still as written (the   *)
(* identifiers between "::").  from_schema_fragment turns each entry into  *)
(* a ValidatorNamespaceDef, which qualifies the names.                     *)
(***************************************************************************)
RawEntityType(memberOfTypes) == [memberOfTypes |-> memberOfTypes]

\* an entry of a memberOf list, {"id": id} or {"id": id, "type": type}
RawActionRef(id, type) == [id |-> id, type |-> type]

\* appliesTo is None when the action has no appliesTo, attributes is None
\* when it has no attributes
RawAction(memberOf, appliesTo, attributes) ==
    [memberOf |-> memberOf, appliesTo |-> appliesTo, attributes |-> attributes]

RawAppliesTo(principalTypes, resourceTypes) ==
    [principalTypes |-> principalTypes, resourceTypes |-> resourceTypes]

NamespaceDefinition(entityTypes, actions) == [entityTypes |-> entityTypes, actions |-> actions]

InNamespace(namespace, ns_def) == [namespace |-> namespace, ns_def |-> ns_def]

\* a name that is written without "::" belongs to the namespace, any other
\* is taken as written
parse_possibly_qualified_name(namespace, written) ==
    IF Len(written) = 1 THEN namespace \o written ELSE written

ACTION_ENTITY_TYPE == <<"Action">>

\* the action a memberOf entry names
parse_action_id_with_namespace(namespace, ref) ==
    EUID(IF ref.type.some
         THEN parse_possibly_qualified_name(namespace, ref.type.val)
         ELSE namespace \o ACTION_ENTITY_TYPE,
         ref.id)

applies_to_types(namespace, written) ==
    {Concrete(parse_possibly_qualified_name(namespace, w)) : w \in written}

(***************************************************************************)
(* Lines 56-64: whether actions may have attributes.                       *)
(***************************************************************************)
ProhibitAttributes == "ProhibitAttributes"

PermitAttributes == "PermitAttributes"

ActionBehaviors == {ProhibitAttributes, PermitAttributes}

\* an entity type named Action may not be declared, and attributes of
\* actions only when they are permitted
check_action_behavior(ns_def, action_behavior) ==
    LET with_attributes ==
            {id \in DOMAIN ns_def.actions : ns_def.actions[id].attributes.some}
    IN  IF ACTION_ENTITY_TYPE[1] \in DOMAIN ns_def.entityTypes
        THEN Err("ActionEntityTypeDeclared", {})
        ELSE IF action_behavior = ProhibitAttributes /\ with_attributes # {}
        THEN Err("UnsupportedFeature",
                 [feature |-> "ActionAttributes", actions |-> with_attributes])
        ELSE Ok(TRUE)

\* the texts of the tests that the parser of identifiers rejects: a
\* name with a namespace and a name that is not normalized
NonIds == {"NS::User", "User // comment"}

from_namespace_definition(namespace, ns_def, action_behavior) ==
    LET checked == check_action_behavior(ns_def, action_behavior)
        rejected == DOMAIN ns_def.entityTypes \cap NonIds
    IN
    IF ~checked.ok THEN checked
    ELSE IF rejected # {}
    THEN Err("ParseEntityType", CHOOSE text \in rejected : TRUE)
    ELSE Ok(NsDef(namespace, EmptyMap,
          [name \in {namespace \o <<b>> : b \in DOMAIN ns_def.entityTypes} |->
              EntityDecl({parse_possibly_qualified_name(namespace, p) :
                             p \in ns_def.entityTypes[name[Len(name)]].memberOfTypes},
                         NoShape)],
          [action \in {EUID(namespace \o ACTION_ENTITY_TYPE, id) : id \in DOMAIN ns_def.actions} |->
              LET raw == ns_def.actions[action.id] IN
              ActionDecl({parse_action_id_with_namespace(namespace, m) : m \in raw.memberOf},
                         IF raw.appliesTo.some
                         THEN applies_to_types(namespace, raw.appliesTo.val.principalTypes)
                         ELSE {Unspecified},
                         IF raw.appliesTo.some
                         THEN applies_to_types(namespace, raw.appliesTo.val.resourceTypes)
                         ELSE {Unspecified},
                         NoShape,
                         IF raw.attributes.some THEN raw.attributes.val ELSE EmptyMap)]))

\* the orders in which a map of n entries may be iterated
Orderings(n) == {p \in [1..n -> 1..n] : \A i, j \in 1..n : p[i] = p[j] => i = j}

\* a conversion that hands no namespace to the definitions
from_schema_fragment_without_namespace(fragment, action_behavior) ==
    LET converted == [i \in 1..Len(fragment) |->
                         from_namespace_definition(<<>>, fragment[i].ns_def,
                                                   action_behavior)]
        failing == {i \in 1..Len(fragment) : ~converted[i].ok}
    IN  IF failing # {} THEN {converted[i] : i \in failing}
        ELSE {Ok([i \in 1..Len(fragment) |-> converted[p[i]].val]) :
                 p \in Orderings(Len(fragment))}

(***************************************************************************)
(* Lines 82-100: every entry of the fragment is converted, in the order in *)
(* which the map of the fragment is iterated, which is any order; the      *)
(* first conversion that fails ends the call with its error.               *)
(***************************************************************************)
from_schema_fragment(fragment, action_behavior) ==
    LET converted == [i \in 1..Len(fragment) |->
                         from_namespace_definition(fragment[i].namespace,
                                                   fragment[i].ns_def, action_behavior)]
        failing == {i \in 1..Len(fragment) : ~converted[i].ok}
    IN  IF failing # {} THEN {converted[i] : i \in failing}
        ELSE {Ok([i \in 1..Len(fragment) |-> converted[p[i]].val]) :
                 p \in Orderings(Len(fragment))}

\* undefined_entity_namespace_member_of
RawMemberOfOtherNamespace ==
    << InNamespace(<<"Foo">>,
          NamespaceDefinition(
              MapUnion("User" :> RawEntityType({<<"Foo", "Group">>, <<"Bar", "Group">>}),
                       "Group" :> RawEntityType({})),
              EmptyMap)) >>

\* undefined_entity_namespace_applies_to
RawAppliesToOtherNamespace ==
    << InNamespace(<<"Foo">>,
          NamespaceDefinition(
              MapUnion("User" :> RawEntityType({}), "Photo" :> RawEntityType({})),
              "view_photo" :>
                  RawAction({}, Some(RawAppliesTo({<<"Foo", "User">>, <<"Bar", "User">>},
                                                  {<<"Photo">>, <<"Bar", "Photo">>})),
                            None))) >>

\* test_action_namespace_inference_multi_success
RawActionInOtherNamespace ==
    << InNamespace(<<"Foo">>,
          NamespaceDefinition(EmptyMap, "read" :> RawAction({}, None, None))),
       InNamespace(<<"ExampleCo", "Personnel">>,
          NamespaceDefinition(EmptyMap,
              "viewPhoto" :>
                  RawAction({RawActionRef("read", Some(<<"Foo", "Action">>))}, None, None))) >>

\* test_action_namespace_inference_multi
RawActionInInnerNamespace ==
    << InNamespace(<<"ExampleCo", "Personnel", "Foo">>,
          NamespaceDefinition(EmptyMap, "read" :> RawAction({}, None, None))),
       InNamespace(<<"ExampleCo", "Personnel">>,
          NamespaceDefinition(EmptyMap,
              "viewPhoto" :>
                  RawAction({RawActionRef("read", Some(<<"Foo", "Action">>))}, None, None))) >>

\* test_action_namespace_inference, with a member of the same namespace
RawActionInOwnNamespace ==
    << InNamespace(<<"ExampleCo", "Personnel">>,
          NamespaceDefinition(
              MapUnion("Group" :> RawEntityType({}),
                       "Member" :> RawEntityType({<<"Group">>})),
              MapUnion("read" :> RawAction({}, None, None),
                       "viewPhoto" :>
                           RawAction({RawActionRef("read", Some(<<"Action">>))},
                                     Some(RawAppliesTo({<<"Member">>}, {<<"Group">>})),
                                     None)))) >>

\* cannot_declare_action_type_when_prohibited
RawActionTypeDeclared ==
    << InNamespace(<<>>,
          NamespaceDefinition("Action" :> RawEntityType({}), EmptyMap)) >>

\* cant_use_namespace_in_entity_type
RawNamespaceInEntityType ==
    << InNamespace(<<>>,
          NamespaceDefinition("NS::User" :> RawEntityType({}), EmptyMap)) >>

\* cannot_declare_action_in_group_when_prohibited
RawActionAttributes ==
    << InNamespace(<<>>,
          NamespaceDefinition(EmptyMap,
              MapUnion(MapUnion("universe" :> RawAction({}, None, None),
                                "view_photo" :>
                                    RawAction({}, None, Some("id" :> "universe"))),
                       MapUnion("edit_photo" :>
                                    RawAction({}, None, Some("id" :> "universe")),
                                "delete_photo" :>
                                    RawAction({}, None, Some("id" :> "universe")))))) >>

RawFragments ==
    {RawMemberOfOtherNamespace, RawAppliesToOtherNamespace, RawActionInOtherNamespace,
     RawActionInInnerNamespace, RawActionInOwnNamespace, RawActionTypeDeclared,
     RawNamespaceInEntityType, RawActionAttributes}

RawInputs == UNION {[1..n -> RawFragments] : n \in 0..MaxFragments}

Inputs == UNION {[1..n -> Fragments] : n \in 0..MaxFragments}

RECURSIVE Flatten(_)
Flatten(frags) ==
    IF frags = <<>> THEN <<>> ELSE Head(frags) \o Flatten(Tail(frags))

(***************************************************************************)
(* The schema-conformant JSON decoder and the encoder of restricted        *)
(* expressions (cedar-policy-core, entities/json).  A JSON value is what   *)
(* was written: an object is the sequence of its members, so a key may     *)
(* occur in it more than once.                                             *)
(***************************************************************************)
JLong(n) == [tag |-> "Long", n |-> n]

JString(s) == [tag |-> "String", s |-> s]

JArray(elems) == [tag |-> "Array", elems |-> elems]

Member(key, value) == [key |-> key, value |-> value]

JObject(members) == [tag |-> "Object", members |-> members]

\* the restricted expressions that decoding gives
LitLong(n) == [kind |-> "Long", n |-> n]

LitString(s) == [kind |-> "String", s |-> s]

LitEntityUID(ty, id) == [kind |-> "EntityUID", ty |-> ty, id |-> id]

SetExpr(elems) == [kind |-> "Set", elems |-> elems]

RecordExpr(fields) == [kind |-> "Record", fields |-> fields]

ExtensionFunctionApp(fn, args) == [kind |-> "ExtensionFunctionApp", fn |-> fn, args |-> args]

\* the types that a schema expects of a value
NoSchemaType == [ty |-> "None"]

SchemaTypeLong == [ty |-> "Long"]

SchemaTypeString == [ty |-> "String"]

SchemaTypeSet(element_ty) == [ty |-> "Set", element_ty |-> element_ty]

AttributeType(attr, attr_type, required) == [attr |-> attr, attr_type |-> attr_type, required |-> required]

SchemaTypeRecord(attrs) == [ty |-> "Record", attrs |-> attrs]

SchemaTypeEntity(name) == [ty |-> "Entity", name |-> name]

SchemaTypeExtension(name) == [ty |-> "Extension", name |-> name]

(***************************************************************************)
(* err.rs, lines 238-260: where in the document the decoder is.            *)
(***************************************************************************)
EntityAttributeCtx(uid, attr) == [kind |-> "EntityAttribute", uid |-> uid, attr |-> attr]

ContextCtx == [kind |-> "Context"]

(***************************************************************************)
(* err.rs, lines 49-196: the errors of decoding.                           *)
(***************************************************************************)
ExpectedLiteralEntityRef(ctx, got) == [ok |-> FALSE, err |-> [kind |-> "ExpectedLiteralEntityRef", ctx |-> ctx, got |-> got]]

ExpectedExtnValue(ctx, got) == [ok |-> FALSE, err |-> [kind |-> "ExpectedExtnValue", ctx |-> ctx, got |-> got]]

MissingImpliedConstructor(ctx, return_type, arg_type) == [ok |-> FALSE, err |-> [kind |-> "MissingImpliedConstructor", ctx |-> ctx, return_type |-> return_type, arg_type |-> arg_type]]

DuplicateKeyInRecordLiteral(ctx, key) == [ok |-> FALSE, err |-> [kind |-> "DuplicateKeyInRecordLiteral", ctx |-> ctx, key |-> key]]

\* the one field of the variant is the conformance error, which says no
\* more here than what did not conform
EntitySchemaConformance(err) == [ok |-> FALSE, err |-> ("kind" :> "EntitySchemaConformance" @@ "0" :> err)]

UnexpectedRecordAttr(ctx, record_attr) == [ok |-> FALSE, err |-> [kind |-> "UnexpectedRecordAttr", ctx |-> ctx, record_attr |-> record_attr]]

MissingRequiredRecordAttr(ctx, record_attr) == [ok |-> FALSE, err |-> [kind |-> "MissingRequiredRecordAttr", ctx |-> ctx, record_attr |-> record_attr]]

TypeMismatch(ctx, expected, actual) == [ok |-> FALSE, err |-> [kind |-> "TypeMismatch", ctx |-> ctx, expected |-> expected, actual |-> actual]]

ExtensionFunctionLookup(ctx, err) == [ok |-> FALSE, err |-> [kind |-> "ExtensionFunctionLookup", ctx |-> ctx, err |-> err]]

ExprTag(ctx) == [ok |-> FALSE, err |-> [kind |-> "ExprTag", ctx |-> ctx]]

(***************************************************************************)
(* err.rs, lines 200-233: the errors of encoding.                          *)
(***************************************************************************)
ExtnCall0Arguments(func) == [ok |-> FALSE, err |-> [kind |-> "ExtnCall0Arguments", func |-> func]]

ExtnCall2OrMoreArguments(func) == [ok |-> FALSE, err |-> [kind |-> "ExtnCall2OrMoreArguments", func |-> func]]

ReservedKey(key) == [ok |-> FALSE, err |-> [kind |-> "ReservedKey", key |-> key]]

(***************************************************************************)
(* The extension registry: the functions of one argument, the type each    *)
(* returns, and the implicit constructors from a string.                   *)
(***************************************************************************)
ExtensionFunctions == {"ip", "decimal"}

ExtensionReturnType(fn) == IF fn = "ip" THEN "ipaddr" ELSE "decimal"

ImpliedConstructor(return_type, arg_type) ==
    IF arg_type = SchemaTypeString /\ return_type \in {"ipaddr", "decimal"}
    THEN Some(IF return_type = "ipaddr" THEN "ip" ELSE "decimal")
    ELSE None

(***************************************************************************)
(* The decoder.                                                            *)
(***************************************************************************)
MemberKeys(members) == {members[i].key : i \in DOMAIN members}

MemberValue(members, key) == members[CHOOSE i \in DOMAIN members : members[i].key = key].value

\* the positions whose key has occurred at an earlier position
RepeatedAt(members) ==
    {i \in DOMAIN members : \E j \in 1..(i - 1) : members[j].key = members[i].key}

IsEscape(val, key) ==
    /\ val.tag = "Object"
    /\ Len(val.members) = 1
    /\ val.members[1].key = key

\* the errors of the collaborators, of which the decoder sees the kind only
EntitySchemaConformanceError(kind) == [kind |-> kind]

ExtensionFunctionLookupError(kind) == [kind |-> kind]

\* type mismatches inside entity attributes are entity conformance errors
Mismatch(ctx, expected, actual) ==
    IF ctx.kind = "EntityAttribute"
    THEN EntitySchemaConformance(EntitySchemaConformanceError("TypeMismatch"))
    ELSE TypeMismatch(ctx, expected, actual)

\* extension function lookup errors inside entity attributes are entity
\* conformance errors too
LookupError(ctx, err) ==
    IF ctx.kind = "EntityAttribute"
    THEN EntitySchemaConformance(EntitySchemaConformanceError("ExtensionFunctionLookup"))
    ELSE ExtensionFunctionLookup(ctx, err)

\* {"type": ..., "id": ...}
entity_ref_of(ctx, inner) ==
    IF /\ inner.tag = "Object"
       /\ Len(inner.members) = 2
       /\ MemberKeys(inner.members) = {"type", "id"}
       /\ MemberValue(inner.members, "type").tag = "String"
       /\ MemberValue(inner.members, "id").tag = "String"
    THEN Ok(LitEntityUID(MemberValue(inner.members, "type").s,
                         MemberValue(inner.members, "id").s))
    ELSE ExpectedLiteralEntityRef(ctx, inner)

\* whether a value of a type may stand where a type is expected
Conforms(expected, actual) ==
    expected.ty = "None" \/ expected.ty = actual

\* the one outcome of a decoding that has not failed
OnlyOutcome(outcomes) == CHOOSE o \in outcomes : TRUE

(***************************************************************************)
(* The decoder gives the set of the outcomes it may return. A value that   *)
(* has nothing wrong has one outcome, its restricted expression. A value   *)
(* that has several things wrong has one error for each of them: which of  *)
(* them the decoder finds first is not fixed, neither among the failures   *)
(* of one record (a repeated key, an attribute that is not declared, a     *)
(* required attribute that is absent, a type that is not expected) nor     *)
(* among the members of a record or the elements of an array.              *)
(***************************************************************************)
RECURSIVE val_into_restricted_expr(_, _, _)
RECURSIVE vals_into_restricted_exprs(_, _, _)
vals_into_restricted_exprs(vals, expecteds, ctx) ==
    LET each == [i \in DOMAIN vals |->
                    val_into_restricted_expr(vals[i], expecteds[i], ctx)]
        failures == UNION {{o \in each[i] : ~o.ok} : i \in DOMAIN vals}
    IN  IF failures # {} THEN failures
        ELSE {Ok([i \in DOMAIN vals |-> OnlyOutcome(each[i]).val])}

\* {"fn": ..., "arg": ...}
extn_value_of(ctx, inner) ==
    IF /\ inner.tag = "Object"
       /\ Len(inner.members) = 2
       /\ MemberKeys(inner.members) = {"fn", "arg"}
       /\ MemberValue(inner.members, "fn").tag = "String"
    THEN LET fn == MemberValue(inner.members, "fn").s
             arg == val_into_restricted_expr(MemberValue(inner.members, "arg"),
                                             NoSchemaType, ctx)
         IN  IF fn \notin ExtensionFunctions
             THEN {LookupError(ctx, ExtensionFunctionLookupError("FuncDoesNotExist"))}
             ELSE IF \E o \in arg : ~o.ok THEN arg
             ELSE {Ok(ExtensionFunctionApp(fn, <<OnlyOutcome(arg).val>>))}
    ELSE {ExpectedExtnValue(ctx, inner)}

\* the type expected of the member `key` of a record
ExpectedOfMember(expected, key) ==
    IF expected.ty = "Record" /\ \E a \in expected.attrs : a.attr = key
    THEN (CHOOSE a \in expected.attrs : a.attr = key).attr_type
    ELSE NoSchemaType

record_into_restricted_expr(members, expected, ctx) ==
    LET keys == MemberKeys(members)
        declared == IF expected.ty = "Record" THEN {a.attr : a \in expected.attrs} ELSE keys
        required == IF expected.ty = "Record"
                    THEN {a.attr : a \in {b \in expected.attrs : b.required}} ELSE {}
        values == vals_into_restricted_exprs(
                      [i \in DOMAIN members |-> members[i].value],
                      [i \in DOMAIN members |-> ExpectedOfMember(expected, members[i].key)],
                      ctx)
        failures ==
            {DuplicateKeyInRecordLiteral(ctx, members[i].key) : i \in RepeatedAt(members)}
                \cup (IF Conforms(expected, "Record") THEN {}
                      ELSE {Mismatch(ctx, expected, "Record")})
                \cup {UnexpectedRecordAttr(ctx, k) : k \in keys \ declared}
                \cup {MissingRequiredRecordAttr(ctx, k) : k \in required \ keys}
                \cup {o \in values : ~o.ok}
    IN  IF failures # {} THEN failures
        ELSE {Ok(RecordExpr({Member(members[i].key, OnlyOutcome(values).val[i]) :
                                i \in DOMAIN members}))}

val_into_restricted_expr(val, expected, ctx) ==
    IF IsEscape(val, "__expr") THEN {ExprTag(ctx)}
    ELSE IF IsEscape(val, "__entity") THEN
        LET uid == entity_ref_of(ctx, val.members[1].value) IN
        IF ~uid.ok THEN {uid}
        ELSE IF ~Conforms(expected, "Entity") THEN {Mismatch(ctx, expected, "Entity")}
        ELSE {uid}
    ELSE IF IsEscape(val, "__extn") THEN
        LET calls == extn_value_of(ctx, val.members[1].value) IN
        IF \E o \in calls : ~o.ok THEN calls
        ELSE IF ~Conforms(expected, "Extension") THEN {Mismatch(ctx, expected, "Extension")}
        ELSE IF /\ expected.ty = "Extension"
                /\ expected.name # ExtensionReturnType(OnlyOutcome(calls).val.fn)
        THEN {Mismatch(ctx, expected, "Extension")}
        ELSE calls
    ELSE IF val.tag = "Object" THEN
        record_into_restricted_expr(val.members, expected, ctx)
    ELSE IF val.tag = "Array" THEN
        LET elems == vals_into_restricted_exprs(
                         val.elems,
                         [i \in DOMAIN val.elems |->
                             IF expected.ty = "Set" THEN expected.element_ty
                             ELSE NoSchemaType],
                         ctx)
            failures == (IF Conforms(expected, "Set") THEN {}
                         ELSE {Mismatch(ctx, expected, "Set")})
                            \cup {o \in elems : ~o.ok}
        IN  IF failures # {} THEN failures
            ELSE {Ok(SetExpr({OnlyOutcome(elems).val[i] : i \in DOMAIN val.elems}))}
    ELSE IF expected.ty = "Extension" THEN
        LET arg_type == IF val.tag = "Long" THEN SchemaTypeLong ELSE SchemaTypeString
            constructor == ImpliedConstructor(expected.name, arg_type)
        IN  IF ~constructor.some
            THEN {MissingImpliedConstructor(ctx, expected, arg_type)}
            ELSE {Ok(ExtensionFunctionApp(constructor.val, <<LitString(val.s)>>))}
    ELSE IF ~Conforms(expected, val.tag) THEN {Mismatch(ctx, expected, val.tag)}
    ELSE IF val.tag = "Long" THEN {Ok(LitLong(val.n))}
    ELSE {Ok(LitString(val.s))}

(***************************************************************************)
(* The encoder: a restricted expression back to the JSON with escapes.     *)
(***************************************************************************)
ReservedKeys == {"__entity", "__extn"}

RECURSIVE SetToSeq(_)
SetToSeq(set) ==
    IF set = {} THEN <<>>
    ELSE LET x == CHOOSE x \in set : TRUE IN <<x>> \o SetToSeq(set \ {x})

RECURSIVE from_expr(_)
RECURSIVE from_exprs(_)
from_exprs(exprs) ==
    IF exprs = <<>> THEN Ok(<<>>)
    ELSE LET first == from_expr(Head(exprs)) IN
         IF ~first.ok THEN first
         ELSE LET rest == from_exprs(Tail(exprs)) IN
              IF ~rest.ok THEN rest ELSE Ok(<<first.val>> \o rest.val)

\* an encoder that writes the argument of an extension call without the call
from_expr_without_extn_escape(expr) ==
    IF expr.kind = "Long" THEN Ok(JLong(expr.n))
    ELSE IF expr.kind = "String" THEN Ok(JString(expr.s))
    ELSE IF expr.kind = "EntityUID" THEN
        Ok(JObject(<<Member("__entity",
                            JObject(<<Member("type", JString(expr.ty)),
                                      Member("id", JString(expr.id))>>))>>))
    ELSE IF expr.kind = "ExtensionFunctionApp" THEN
        IF Len(expr.args) = 0 THEN ExtnCall0Arguments(expr.fn)
        ELSE IF Len(expr.args) >= 2 THEN ExtnCall2OrMoreArguments(expr.fn)
        ELSE from_expr(expr.args[1])
    ELSE IF expr.kind = "Set" THEN
        LET elems == from_exprs(SetToSeq(expr.elems)) IN
        IF ~elems.ok THEN elems ELSE Ok(JArray(elems.val))
    ELSE LET fields == SetToSeq(expr.fields)
             reserved == {f.key : f \in expr.fields} \cap ReservedKeys
             values == from_exprs([i \in DOMAIN fields |-> fields[i].value])
         IN  IF reserved # {} THEN ReservedKey(CHOOSE k \in reserved : TRUE)
             ELSE IF ~values.ok THEN values
             ELSE Ok(JObject([i \in DOMAIN fields |->
                                 Member(fields[i].key, values.val[i])]))

from_expr(expr) ==
    IF expr.kind = "Long" THEN Ok(JLong(expr.n))
    ELSE IF expr.kind = "String" THEN Ok(JString(expr.s))
    ELSE IF expr.kind = "EntityUID" THEN
        Ok(JObject(<<Member("__entity",
                            JObject(<<Member("type", JString(expr.ty)),
                                      Member("id", JString(expr.id))>>))>>))
    ELSE IF expr.kind = "ExtensionFunctionApp" THEN
        IF Len(expr.args) = 0 THEN ExtnCall0Arguments(expr.fn)
        ELSE IF Len(expr.args) >= 2 THEN ExtnCall2OrMoreArguments(expr.fn)
        ELSE LET arg == from_expr(expr.args[1]) IN
             IF ~arg.ok THEN arg
             ELSE Ok(JObject(<<Member("__extn",
                                      JObject(<<Member("fn", JString(expr.fn)),
                                                Member("arg", arg.val)>>))>>))
    ELSE IF expr.kind = "Set" THEN
        LET elems == from_exprs(SetToSeq(expr.elems)) IN
        IF ~elems.ok THEN elems ELSE Ok(JArray(elems.val))
    ELSE LET fields == SetToSeq(expr.fields)
             reserved == {f.key : f \in expr.fields} \cap ReservedKeys
             values == from_exprs([i \in DOMAIN fields |-> fields[i].value])
         IN  IF reserved # {} THEN ReservedKey(CHOOSE k \in reserved : TRUE)
             ELSE IF ~values.ok THEN values
             ELSE Ok(JObject([i \in DOMAIN fields |->
                                 Member(fields[i].key, values.val[i])]))

(***************************************************************************)
(* The JSON values, expected types and contexts that the decoder is given. *)
(***************************************************************************)
MaxLen == 2

\* leaves and well-formed escapes; escapes that are not what they have to
\* be; objects and arrays of up to MaxLen of the leaves; and an object inside
\* an array and inside an object
JsonValues ==
    LET EntityEscape ==
            JObject(<<Member("__entity",
                             JObject(<<Member("type", JString("User")),
                                       Member("id", JString("alice"))>>))>>)
        ExtnEscape ==
            JObject(<<Member("__extn",
                             JObject(<<Member("fn", JString("ip")),
                                       Member("arg", JString("10.0.0.1"))>>))>>)
        BadEscapes ==
            { JObject(<<Member("__entity", JString("alice"))>>),
              JObject(<<Member("__extn", JObject(<<Member("fn", JString("ip"))>>))>>),
              JObject(<<Member("__extn",
                               JObject(<<Member("fn", JString("nope")),
                                         Member("arg", JString("10.0.0.1"))>>))>>),
              JObject(<<Member("__expr", JString("1 + 1"))>>) }
        JsonLeaves == {JLong(1), JString("10.0.0.1"), EntityEscape, ExtnEscape}
        JsonKeys == {"a", "b", "__entity"}
        JsonMembers == {Member(key, value) : key \in JsonKeys, value \in JsonLeaves}
        JsonObjects ==
            {JObject(members) : members \in UNION {[1..n -> JsonMembers] : n \in 0..MaxLen}}
        JsonArrays ==
            {JArray(elems) : elems \in UNION {[1..n -> JsonLeaves] : n \in 0..MaxLen}}
        JsonNested ==
            {JArray(<<object>>) : object \in JsonObjects}
                \cup {JObject(<<Member("a", object)>>) : object \in JsonObjects}
    IN  JsonLeaves \cup BadEscapes \cup JsonObjects \cup JsonArrays \cup JsonNested

ExpectedRecord ==
    SchemaTypeRecord({AttributeType("a", SchemaTypeLong, TRUE),
                      AttributeType("b", SchemaTypeExtension("ipaddr"), FALSE)})

ExpectedTypes ==
    { NoSchemaType, SchemaTypeLong, SchemaTypeString, SchemaTypeSet(SchemaTypeLong),
      SchemaTypeEntity("User"), SchemaTypeExtension("ipaddr"), ExpectedRecord,
      SchemaTypeRecord({AttributeType("a", ExpectedRecord, TRUE)}) }

DecoderContexts == {EntityAttributeCtx("User::\"alice\"", "a"), ContextCtx}

(***************************************************************************)
(* One value is decoded, what it gives is encoded, and what that gives is  *)
(* decoded again with the same expected type.                              *)
(***************************************************************************)
NoOutcome == [ok |-> FALSE, err |-> [kind |-> "NoOutcome"]]

NoCodec == [pc |-> "none"]

CodecInit(val, expected, ctx) ==
    [pc |-> "decode", val |-> val, expected |-> expected, ctx |-> ctx,
     decoded |-> NoOutcome, encoded |-> NoOutcome, redecoded |-> NoOutcome]

(***************************************************************************)
(* The state of one call of from_schema_fragments(fragments): its locals,  *)
(* the phase it has reached, and its result once it has returned.          *)
(* prev_result is the result of the previous call on the same fragments,   *)
(* kept by a caller that calls again.                                      *)
(* codec is the one value that the JSON decoder and encoder work on.       *)
(* schema_files holds the written fragments of a caller that converts them *)
(* before it calls from_schema_fragments.                                  *)
(***************************************************************************)
VARIABLES fragments, pc, ns_defs, type_defs, entity_type_fragments,
          action_fragments, entity_children, action_children, entity_types,
          action_ids, result, prev_result, callers, returned, codec, schema_files

vars == <<fragments, pc, ns_defs, type_defs, entity_type_fragments,
          action_fragments, entity_children, action_children, entity_types,
          action_ids, result, prev_result, callers, returned, codec, schema_files>>

locals == <<ns_defs, type_defs, entity_type_fragments, action_fragments,
            entity_children, action_children, entity_types, action_ids>>

\* the threads that share a reference to a constructed schema
Callers == {"t1", "t2"}

\* a caller that passes fragments that are converted already
NoSchemaFiles == [raws |-> <<>>, action_behavior |-> ProhibitAttributes]

\* a caller that holds nothing of the schema
Idle == [pc |-> "idle"]

\* no query has returned a value that its caller has still to take
NoReturn == [caller |-> "", query |-> "", arg |-> <<>>, ret |-> <<>>]

NoResult == [ok |-> FALSE, err |-> [kind |-> "NoResult", arg |-> {}]]

ValidatorSchema(ets, ids) == [entity_types |-> ets, action_ids |-> ids]

Init ==
    /\ fragments \in Inputs
    /\ pc = "merge"
    /\ ns_defs = Flatten(fragments)
    /\ type_defs = EmptyMap
    /\ entity_type_fragments = EmptyMap
    /\ action_fragments = EmptyMap
    /\ entity_children = EmptyMap
    /\ action_children = EmptyMap
    /\ entity_types = EmptyMap
    /\ action_ids = EmptyMap
    /\ result = NoResult
    /\ prev_result = NoResult
    /\ callers = [c \in Callers |-> Idle]
    /\ returned = NoReturn
    /\ codec = NoCodec
    /\ schema_files = NoSchemaFiles

\* return Err(e): the locals are dropped with the call
Return(r) ==
    /\ result' = r
    /\ pc' = "done"
    /\ UNCHANGED <<fragments, prev_result, locals, callers, returned, codec, schema_files>>

(***************************************************************************)
(* Lines 188-220: one pass of the loop over the namespace definitions.     *)
(* The three inner loops visit HashMaps, so the duplicate that is reported *)
(* is any duplicate of the first kind that has one.                        *)
(***************************************************************************)
\* an insertion that overwrites the entry it finds
DuplicateNames_none(declared, aggregate) == {}

\* a comparison of the unqualified names
DuplicateNames_by_basename(declared, aggregate) ==
    {n \in DOMAIN declared :
        \E m \in DOMAIN aggregate : n[Len(n)] = m[Len(m)]}

DuplicateNames(declared, aggregate) == DOMAIN declared \cap DOMAIN aggregate

DuplicateEuids(declared, aggregate) == DOMAIN declared \cap DOMAIN aggregate

\* a merge that keeps the common types of the last namespace definition only
MergeNsDef_last_type_defs ==
    /\ pc = "merge"
    /\ ns_defs # <<>>
    /\ LET ns_def == Head(ns_defs)
           dup_types == DuplicateNames(ns_def.type_defs, type_defs)
           dup_entities == DuplicateNames(ns_def.entity_types, entity_type_fragments)
           dup_actions == DuplicateEuids(ns_def.actions, action_fragments)
       IN  IF dup_types # {} THEN
               \E name \in dup_types :
                   Return(Err("DuplicateCommonType", NameToString(name)))
           ELSE IF dup_entities # {} THEN
               \E name \in dup_entities :
                   Return(Err("DuplicateEntityType", NameToString(name)))
           ELSE IF dup_actions # {} THEN
               \E euid \in dup_actions :
                   Return(Err("DuplicateAction", EuidToString(euid)))
           ELSE
               /\ type_defs' = ns_def.type_defs
               /\ entity_type_fragments' =
                      MapUnion(entity_type_fragments, ns_def.entity_types)
               /\ action_fragments' = MapUnion(action_fragments, ns_def.actions)
               /\ ns_defs' = Tail(ns_defs)
               /\ UNCHANGED <<fragments, pc, entity_children, action_children,
                              entity_types, action_ids, result, prev_result, callers, returned, codec, schema_files>>

MergeNsDef ==
    /\ pc = "merge"
    /\ ns_defs # <<>>
    /\ LET ns_def == Head(ns_defs)
           dup_types == DuplicateNames(ns_def.type_defs, type_defs)
           dup_entities == DuplicateNames(ns_def.entity_types, entity_type_fragments)
           dup_actions == DuplicateEuids(ns_def.actions, action_fragments)
       IN  IF dup_types # {} THEN
               \E name \in dup_types :
                   Return(Err("DuplicateCommonType", NameToString(name)))
           ELSE IF dup_entities # {} THEN
               \E name \in dup_entities :
                   Return(Err("DuplicateEntityType", NameToString(name)))
           ELSE IF dup_actions # {} THEN
               \E euid \in dup_actions :
                   Return(Err("DuplicateAction", EuidToString(euid)))
           ELSE
               /\ type_defs' = MapUnion(type_defs, ns_def.type_defs)
               /\ entity_type_fragments' =
                      MapUnion(entity_type_fragments, ns_def.entity_types)
               /\ action_fragments' = MapUnion(action_fragments, ns_def.actions)
               /\ ns_defs' = Tail(ns_defs)
               /\ UNCHANGED <<fragments, pc, entity_children, action_children,
                              entity_types, action_ids, result, prev_result, callers, returned, codec, schema_files>>

(***************************************************************************)
(* Lines 222-232: the children of the entity types.                        *)
(***************************************************************************)
InvertEntityParents ==
    /\ pc = "merge"
    /\ ns_defs = <<>>
    /\ entity_children' = InvertParents(entity_type_fragments)
    /\ pc' = "entity_types"
    /\ UNCHANGED <<fragments, ns_defs, type_defs, entity_type_fragments,
                   action_fragments, action_children, entity_types, action_ids,
                   result, prev_result, callers, returned, codec, schema_files>>

(***************************************************************************)
(* Lines 234-261: the closure mapped over entity_type_fragments.           *)
(***************************************************************************)
\* an entity type whose shape is resolved against no common types at all
build_entity_type_without_type_defs(name, entity_type, children, defs) ==
    LET descendants == RemoveOrDefault(children, name)
        resolved == resolve_type_defs(entity_type.attributes, EmptyMap)
    IN  IF ~resolved.ok THEN resolved
        ELSE LET attributes == record_attributes_or_none(resolved.val) IN
             IF ~attributes.some
             THEN Err("ContextOrShapeNotRecord",
                      [shape |-> "EntityTypeShape", name |-> NameToString(name)])
             ELSE Ok([name |-> name, descendants |-> descendants,
                      attributes |-> attributes.val])

build_entity_type(name, entity_type, children, defs) ==
    LET descendants == RemoveOrDefault(children, name)
        resolved == resolve_type_defs(entity_type.attributes, defs)
    IN  IF ~resolved.ok THEN resolved
        ELSE LET attributes == record_attributes_or_none(resolved.val) IN
             IF ~attributes.some
             THEN Err("ContextOrShapeNotRecord",
                      [shape |-> "EntityTypeShape", name |-> NameToString(name)])
             ELSE Ok([name |-> name, descendants |-> descendants,
                      attributes |-> attributes.val])

\* a loop that builds each entity type and keeps none of them
BuildEntityType_not_collected ==
    /\ pc = "entity_types"
    /\ \E name \in DOMAIN entity_type_fragments :
         LET built == build_entity_type(name, entity_type_fragments[name],
                                        entity_children, type_defs)
         IN  IF ~built.ok THEN Return(built)
             ELSE /\ entity_types' = entity_types
                  /\ entity_children' = MapRemove(entity_children, name)
                  /\ entity_type_fragments' = MapRemove(entity_type_fragments, name)
                  /\ UNCHANGED <<fragments, pc, ns_defs, type_defs, action_fragments,
                                 action_children, action_ids, result, prev_result, callers, returned, codec, schema_files>>

BuildEntityType ==
    /\ pc = "entity_types"
    /\ \E name \in DOMAIN entity_type_fragments :
         LET built == build_entity_type(name, entity_type_fragments[name],
                                        entity_children, type_defs)
         IN  IF ~built.ok THEN Return(built)
             ELSE /\ entity_types' = MapInsert(entity_types, name, built.val)
                  /\ entity_children' = MapRemove(entity_children, name)
                  /\ entity_type_fragments' = MapRemove(entity_type_fragments, name)
                  /\ UNCHANGED <<fragments, pc, ns_defs, type_defs, action_fragments,
                                 action_children, action_ids, result, prev_result, callers, returned, codec, schema_files>>

(***************************************************************************)
(* Lines 263-271: the children of the actions.                             *)
(***************************************************************************)
InvertActionParents ==
    /\ pc = "entity_types"
    /\ DOMAIN entity_type_fragments = {}
    /\ action_children' = InvertParents(action_fragments)
    /\ pc' = "action_ids"
    /\ UNCHANGED <<fragments, ns_defs, type_defs, entity_type_fragments,
                   action_fragments, entity_children, entity_types, action_ids,
                   result, prev_result, callers, returned, codec, schema_files>>

(***************************************************************************)
(* Lines 272-294: the closure mapped over action_fragments.                *)
(***************************************************************************)
\* an action id whose non-record context is reported as an entity shape
build_action_id_as_entity_shape(name, action, children, defs) ==
    LET descendants == RemoveOrDefault(children, name)
        resolved == resolve_type_defs(action.context, defs)
    IN  IF ~resolved.ok THEN resolved
        ELSE LET context == record_attributes_or_none(resolved.val) IN
             IF ~context.some
             THEN Err("ContextOrShapeNotRecord",
                      [shape |-> "EntityTypeShape", name |-> EuidToString(name)])
             ELSE Ok([name |-> name, applies_to |-> action.applies_to,
                      descendants |-> descendants, context |-> context.val,
                      attribute_types |-> action.attribute_types,
                      attributes |-> action.attributes])

build_action_id(name, action, children, defs) ==
    LET descendants == RemoveOrDefault(children, name)
        resolved == resolve_type_defs(action.context, defs)
    IN  IF ~resolved.ok THEN resolved
        ELSE LET context == record_attributes_or_none(resolved.val) IN
             IF ~context.some
             THEN Err("ContextOrShapeNotRecord",
                      [shape |-> "ActionContext", name |-> EuidToString(name)])
             ELSE Ok([name |-> name, applies_to |-> action.applies_to,
                      descendants |-> descendants, context |-> context.val,
                      attribute_types |-> action.attribute_types,
                      attributes |-> action.attributes])

BuildActionId ==
    /\ pc = "action_ids"
    /\ \E name \in DOMAIN action_fragments :
         LET built == build_action_id(name, action_fragments[name],
                                      action_children, type_defs)
         IN  IF ~built.ok THEN Return(built)
             ELSE /\ action_ids' = MapInsert(action_ids, name, built.val)
                  /\ action_children' = MapRemove(action_children, name)
                  /\ action_fragments' = MapRemove(action_fragments, name)
                  /\ UNCHANGED <<fragments, pc, ns_defs, type_defs,
                                 entity_type_fragments, entity_children,
                                 entity_types, result, prev_result, callers, returned, codec, schema_files>>

(***************************************************************************)
(* Lines 296-301: the transitive closures; the action hierarchy must be a  *)
(* DAG.                                                                    *)
(***************************************************************************)
\* the entity types left as the inversion of memberOfTypes built them
ComputeTcEntities_skipped ==
    /\ pc = "action_ids"
    /\ DOMAIN action_fragments = {}
    /\ pc' = "tc_actions"
    /\ UNCHANGED <<fragments, ns_defs, type_defs, entity_type_fragments,
                   action_fragments, entity_children, action_children,
                   entity_types, action_ids, result, prev_result, callers, returned, codec, schema_files>>

\* the entity-type closure with the cycle check of the action closure
ComputeTcEntities_enforce_dag ==
    /\ pc = "action_ids"
    /\ DOMAIN action_fragments = {}
    /\ LET closed == compute_tc(entity_types, TRUE) IN
       IF ~closed.ok THEN Return(closed)
       ELSE /\ entity_types' = closed.val
            /\ pc' = "tc_actions"
            /\ UNCHANGED <<fragments, ns_defs, type_defs, entity_type_fragments,
                           action_fragments, entity_children, action_children,
                           action_ids, result, prev_result, callers, returned, codec, schema_files>>

ComputeTcEntities ==
    /\ pc = "action_ids"
    /\ DOMAIN action_fragments = {}
    /\ LET closed == compute_tc(entity_types, FALSE) IN
       IF ~closed.ok THEN Return(closed)
       ELSE /\ entity_types' = closed.val
            /\ pc' = "tc_actions"
            /\ UNCHANGED <<fragments, ns_defs, type_defs, entity_type_fragments,
                           action_fragments, entity_children, action_children,
                           action_ids, result, prev_result, callers, returned, codec, schema_files>>

\* the action closure computed without the acyclicity check
ComputeTcActions_no_dag ==
    /\ pc = "tc_actions"
    /\ LET closed == compute_tc(action_ids, FALSE) IN
       IF ~closed.ok THEN Return(closed)
       ELSE /\ action_ids' = closed.val
            /\ pc' = "check"
            /\ UNCHANGED <<fragments, ns_defs, type_defs, entity_type_fragments,
                           action_fragments, entity_children, action_children,
                           entity_types, result, prev_result, callers, returned, codec, schema_files>>

\* an action closure that looks for undeclared references before cycles
ComputeTcActions_undeclared_first ==
    /\ pc = "tc_actions"
    /\ LET checked == check_for_undeclared(entity_types, DOMAIN entity_children,
                                           action_ids, DOMAIN action_children)
           closed == compute_tc(action_ids, TRUE)
       IN  IF ~checked.ok THEN Return(checked)
           ELSE IF ~closed.ok THEN Return(closed)
           ELSE /\ action_ids' = closed.val
                /\ pc' = "check"
                /\ UNCHANGED <<fragments, ns_defs, type_defs, entity_type_fragments,
                               action_fragments, entity_children, action_children,
                               entity_types, result, prev_result, callers, returned, codec, schema_files>>

\* the action hierarchy checked for cycles and left as it was declared
ComputeTcActions_not_closed ==
    /\ pc = "tc_actions"
    /\ LET closed == compute_tc(action_ids, TRUE) IN
       IF ~closed.ok THEN Return(closed)
       ELSE /\ action_ids' = action_ids
            /\ pc' = "check"
            /\ UNCHANGED <<fragments, ns_defs, type_defs, entity_type_fragments,
                           action_fragments, entity_children, action_children,
                           entity_types, result, prev_result, callers, returned, codec, schema_files>>

ComputeTcActions ==
    /\ pc = "tc_actions"
    /\ LET closed == compute_tc(action_ids, TRUE) IN
       IF ~closed.ok THEN Return(closed)
       ELSE /\ action_ids' = closed.val
            /\ pc' = "check"
            /\ UNCHANGED <<fragments, ns_defs, type_defs, entity_type_fragments,
                           action_fragments, entity_children, action_children,
                           entity_types, result, prev_result, callers, returned, codec, schema_files>>

(***************************************************************************)
(* Lines 303-319: the check for undeclared references, and the schema.     *)
(***************************************************************************)
CheckForUndeclared ==
    /\ pc = "check"
    /\ LET checked == check_for_undeclared(entity_types, DOMAIN entity_children,
                                           action_ids, DOMAIN action_children)
       IN  IF ~checked.ok THEN Return(checked)
           ELSE Return(Ok(ValidatorSchema(entity_types, action_ids)))

(***************************************************************************)
(* The caller calls from_schema_fragments again on the same fragments.     *)
(***************************************************************************)
Retry ==
    /\ pc = "done"
    /\ \A c \in Callers : callers[c] = Idle
    /\ returned.caller = ""
    /\ prev_result' = result
    /\ result' = NoResult
    /\ pc' = "merge"
    /\ ns_defs' = Flatten(fragments)
    /\ type_defs' = EmptyMap
    /\ entity_type_fragments' = EmptyMap
    /\ action_fragments' = EmptyMap
    /\ entity_children' = EmptyMap
    /\ action_children' = EmptyMap
    /\ entity_types' = EmptyMap
    /\ action_ids' = EmptyMap
    /\ UNCHANGED <<fragments, callers, returned, codec, schema_files>>

(***************************************************************************)
(* Lines 181-186: the caller calls from_schema_fragments again, on the     *)
(* same fragments with two of them exchanged.  The exchanges generate      *)
(* every permutation of the fragments.                                     *)
(***************************************************************************)
Exchange(frags, i, j) ==
    [k \in DOMAIN frags |-> IF k = i THEN frags[j] ELSE IF k = j THEN frags[i] ELSE frags[k]]

RetryReordered ==
    /\ pc = "done"
    /\ \A c \in Callers : callers[c] = Idle
    /\ returned.caller = ""
    /\ \E i, j \in DOMAIN fragments :
          /\ i < j
          /\ fragments' = Exchange(fragments, i, j)
    /\ prev_result' = result
    /\ result' = NoResult
    /\ pc' = "merge"
    /\ ns_defs' = Flatten(fragments')
    /\ type_defs' = EmptyMap
    /\ entity_type_fragments' = EmptyMap
    /\ action_fragments' = EmptyMap
    /\ entity_children' = EmptyMap
    /\ action_children' = EmptyMap
    /\ entity_types' = EmptyMap
    /\ action_ids' = EmptyMap
    /\ UNCHANGED <<callers, returned, codec, schema_files>>

(***************************************************************************)
(* Lines 446-454: the lookups of a constructed schema.                     *)
(***************************************************************************)
get_action_id(schema, action_id) ==
    IF action_id \in DOMAIN schema.action_ids
    THEN Some(schema.action_ids[action_id]) ELSE None

get_entity_type(schema, entity_type_id) ==
    IF entity_type_id \in DOMAIN schema.entity_types
    THEN Some(schema.entity_types[entity_type_id]) ELSE None

(***************************************************************************)
(* Lines 456-479: membership tests and the iterators over the two tables.  *)
(* An iterator over a HashMap is modelled by the set of what it yields.    *)
(***************************************************************************)
is_known_action_id(schema, action_id) == action_id \in DOMAIN schema.action_ids

is_known_entity_type(schema, entity_type) == entity_type \in DOMAIN schema.entity_types

known_action_ids(schema) == DOMAIN schema.action_ids

known_entity_types(schema) == DOMAIN schema.entity_types

entity_types_iter(schema) ==
    {<<name, schema.entity_types[name]>> : name \in DOMAIN schema.entity_types}

(***************************************************************************)
(* Lines 748-854: the two head variable kinds.  A principal or resource    *)
(* is looked up by the entity type of the EntityUID, an action by the      *)
(* EntityUID itself.                                                       *)
(***************************************************************************)
PrincipalOrResource == "PrincipalOrResource"

ActionHeadVar == "Action"

get_euid_component(var, euid) ==
    IF var = ActionHeadVar THEN Some(euid)
    ELSE IF euid.ty.kind = "Unspecified" THEN None
    ELSE Some(euid.ty.name)

get_euid_component_if_present(var, schema, euid) ==
    LET euid_component == get_euid_component(var, euid) IN
    IF ~euid_component.some THEN None
    ELSE IF var = ActionHeadVar
         THEN IF is_known_action_id(schema, euid_component.val)
              THEN euid_component ELSE None
         ELSE IF is_known_entity_type(schema, euid_component.val)
              THEN euid_component ELSE None

get_descendants_if_present(var, schema, euid) ==
    LET euid_component == get_euid_component(var, euid) IN
    IF ~euid_component.some THEN None
    ELSE LET found == IF var = ActionHeadVar
                      THEN get_action_id(schema, euid_component.val)
                      ELSE get_entity_type(schema, euid_component.val)
         IN  IF found.some THEN Some(found.val.descendants) ELSE None

\* Option::into_iter: the iterator over nothing or over the one value
OptionIter(opt) == IF opt.some THEN {opt.val} ELSE {}

(***************************************************************************)
(* Lines 492-506: get_entities_in chains the descendants with the          *)
(* component itself; what the chained iterator yields is a bag, since a    *)
(* value that both parts yield is yielded twice.                           *)
(***************************************************************************)
\* a get_entities_in that yields the descendants without the component
get_entities_in_descendants_only(schema, var, euid) ==
    LET descendants == get_descendants_if_present(var, schema, euid)
        component == get_euid_component_if_present(var, schema, euid)
    IN  SetToBag(UNION OptionIter(descendants))

get_entities_in(schema, var, euid) ==
    LET descendants == get_descendants_if_present(var, schema, euid)
        component == get_euid_component_if_present(var, schema, euid)
    IN  SetToBag(UNION OptionIter(descendants)) (+) SetToBag(OptionIter(component))

(***************************************************************************)
(* Lines 511-523: get_entities_in_set flat-maps get_entities_in over the   *)
(* EUIDs, so it yields what each of them yields, one after the other.      *)
(***************************************************************************)
RECURSIVE get_entities_in_set(_, _, _)
get_entities_in_set(schema, var, euids) ==
    IF euids = <<>> THEN EmptyBag
    ELSE get_entities_in(schema, var, Head(euids))
            (+) get_entities_in_set(schema, var, Tail(euids))

(***************************************************************************)
(* Lines 525-548: the context of an action as a closed record type.        *)
(***************************************************************************)
ClosedAttributes == FALSE

record_with_attributes(attrs, open_tag) ==
    [tag |-> "Record", attrs |-> attrs, open |-> open_tag]

ContextSchema(ty) == [ty |-> ty]

\* the record made from the types of the action's own attributes
get_context_schema_of_attribute_types(schema, action) ==
    LET action_id == get_action_id(schema, action) IN
    IF ~action_id.some THEN None
    ELSE Some(ContextSchema(record_with_attributes(action_id.val.attribute_types,
                                                   ClosedAttributes)))

get_context_schema(schema, action) ==
    LET action_id == get_action_id(schema, action) IN
    IF ~action_id.some THEN None
    ELSE Some(ContextSchema(record_with_attributes(action_id.val.context,
                                                   ClosedAttributes)))

(***************************************************************************)
(* Lines 550-584: the action entities.  The first loop inverts the         *)
(* descendants of the actions into action_ancestors; the iterator then     *)
(* makes one Entity for every entry of the action table.                   *)
(***************************************************************************)
Entity(uid, attrs, ancestors) == [uid |-> uid, attrs |-> attrs, ancestors |-> ancestors]

\* a map of every action to its own descendants: the inversion forgotten
action_ancestors_of_not_inverted(schema) ==
    [a \in DOMAIN schema.action_ids |-> schema.action_ids[a].descendants]

action_ancestors_of(schema) ==
    LET ids == schema.action_ids
        descendants == UNION {ids[a].descendants : a \in DOMAIN ids}
    IN  [d \in descendants |-> {a \in DOMAIN ids : d \in ids[a].descendants}]

action_entities_from(schema, action_ancestors) ==
    {Entity(a, schema.action_ids[a].attributes, RemoveOrDefault(action_ancestors, a)) :
        a \in DOMAIN schema.action_ids}

action_entities_iter(schema) ==
    action_entities_from(schema, action_ancestors_of(schema))

\* Entities::from_entities without a schema and with the closure assumed
Entities_from_entities(entities) ==
    Ok([uid \in {e.uid : e \in entities} |-> CHOOSE e \in entities : e.uid = uid])

action_entities(schema) == Entities_from_entities(action_entities_iter(schema))

(***************************************************************************)
(* Lines 660-715: the description of one entity type.                      *)
(***************************************************************************)
\* the parents read off the descendants of the type itself
EntityTypeDescription_new_from_own_descendants(schema, type_name) ==
    LET validator_type == get_entity_type(schema, type_name) IN
    IF ~validator_type.some THEN None
    ELSE Some([core_type |-> Concrete(type_name),
               validator_type |-> validator_type.val,
               allowed_parent_types |->
                   {Concrete(p) : p \in validator_type.val.descendants}])

EntityTypeDescription_new(schema, type_name) ==
    LET validator_type == get_entity_type(schema, type_name) IN
    IF ~validator_type.some THEN None
    ELSE Some([core_type |-> Concrete(type_name),
               validator_type |-> validator_type.val,
               allowed_parent_types |->
                   {Concrete(p) : p \in {q \in DOMAIN schema.entity_types :
                        type_name \in schema.entity_types[q].descendants}}])

required_attrs(description) ==
    {attr \in DOMAIN description.validator_type.attributes :
        description.validator_type.attributes[attr].is_required}

allowed_parent_types(description) == description.allowed_parent_types

(***************************************************************************)
(* Lines 587-647: CoreSchema keeps a reference to the schema and a map     *)
(* from every action id to its Entity.                                     *)
(***************************************************************************)
CoreSchema_new(schema) ==
    LET entities == action_entities_iter(schema) IN
    [actions |-> [uid \in {e.uid : e \in entities} |->
                     CHOOSE e \in entities : e.uid = uid]]

CoreSchema_entity_type(schema, entity_type) ==
    IF entity_type.kind = "Unspecified" THEN None
    ELSE EntityTypeDescription_new(schema, entity_type.name)

\* a lookup that makes the entity anew, without its ancestors
CoreSchema_action_without_ancestors(core, action) ==
    IF action \in DOMAIN core.actions
    THEN Some(Entity(action, core.actions[action].attrs, {}))
    ELSE None

CoreSchema_action(core, action) ==
    IF action \in DOMAIN core.actions THEN Some(core.actions[action]) ELSE None

entity_types_with_basename(schema, basename) ==
    {Concrete(et[1]) : et \in {p \in entity_types_iter(schema) : p[1][Len(p[1])] = basename}}

CoreSchema_action_entities(core) == {core.actions[a] : a \in DOMAIN core.actions}

(***************************************************************************)
(* The callers of a constructed schema.  from_schema_fragments has         *)
(* returned Ok(schema) and the callers share a reference to it.  A caller  *)
(* makes any query with any argument; `returned` is what the last query    *)
(* gave back to its caller, until the caller has taken it.  A caller in    *)
(* the middle of action_entities_iter holds the map action_ancestors, and  *)
(* a caller that made a CoreSchema holds it until it drops it.             *)
(***************************************************************************)
QueryNames == {User, <<"Bar", "Foo", "Baz">>}

QueryActions == {Action("manage"), EUID(<<"Bar", "Foo", "Action">>, "Baz")}

QueryEntityTypes == {Concrete(n) : n \in QueryNames} \cup {Unspecified}

QueryEuids == {[ty |-> ty, id |-> "alice"] : ty \in QueryEntityTypes}

QueryBasenames == {n[Len(n)] : n \in QueryNames}

CanCall(c) ==
    /\ pc = "done"
    /\ result.ok
    /\ returned.caller = ""
    /\ callers[c].pc \in {"idle", "core_schema"}

Returns(c, query, arg, ret) ==
    returned' = [caller |-> c, query |-> query, arg |-> arg, ret |-> ret]

SchemaUnchanged == UNCHANGED <<fragments, pc, result, prev_result, locals, codec, schema_files>>

GetActionId ==
    \E c \in Callers : \E action_id \in QueryActions :
        /\ CanCall(c)
        /\ Returns(c, "get_action_id", action_id, get_action_id(result.val, action_id))
        /\ UNCHANGED callers
        /\ SchemaUnchanged

GetEntityType ==
    \E c \in Callers : \E entity_type_id \in QueryNames :
        /\ CanCall(c)
        /\ Returns(c, "get_entity_type", entity_type_id, get_entity_type(result.val, entity_type_id))
        /\ UNCHANGED callers
        /\ SchemaUnchanged

IsKnownActionId ==
    \E c \in Callers : \E action_id \in QueryActions :
        /\ CanCall(c)
        /\ Returns(c, "is_known_action_id", action_id, is_known_action_id(result.val, action_id))
        /\ UNCHANGED callers
        /\ SchemaUnchanged

IsKnownEntityType ==
    \E c \in Callers : \E entity_type \in QueryNames :
        /\ CanCall(c)
        /\ Returns(c, "is_known_entity_type", entity_type, is_known_entity_type(result.val, entity_type))
        /\ UNCHANGED callers
        /\ SchemaUnchanged

KnownActionIds ==
    \E c \in Callers :
        /\ CanCall(c)
        /\ Returns(c, "known_action_ids", <<>>, known_action_ids(result.val))
        /\ UNCHANGED callers
        /\ SchemaUnchanged

KnownEntityTypes ==
    \E c \in Callers :
        /\ CanCall(c)
        /\ Returns(c, "known_entity_types", <<>>, known_entity_types(result.val))
        /\ UNCHANGED callers
        /\ SchemaUnchanged

EntityTypes ==
    \E c \in Callers :
        /\ CanCall(c)
        /\ Returns(c, "entity_types", <<>>, entity_types_iter(result.val))
        /\ UNCHANGED callers
        /\ SchemaUnchanged

\* a get_context_schema that takes the action out of the table it reads
GetContextSchema_removes_action ==
    \E c \in Callers : \E action \in QueryActions :
        /\ CanCall(c)
        /\ Returns(c, "get_context_schema", action, get_context_schema(result.val, action))
        /\ UNCHANGED callers
        /\ result' = [result EXCEPT !.val.action_ids = MapRemove(@, action)]
        /\ UNCHANGED <<fragments, pc, prev_result, locals, codec, schema_files>>

GetContextSchema ==
    \E c \in Callers : \E action \in QueryActions :
        /\ CanCall(c)
        /\ Returns(c, "get_context_schema", action, get_context_schema(result.val, action))
        /\ UNCHANGED callers
        /\ SchemaUnchanged

EntityTypeDescriptionNew ==
    \E c \in Callers : \E type_name \in QueryNames :
        /\ CanCall(c)
        /\ Returns(c, "EntityTypeDescription::new", type_name, EntityTypeDescription_new(result.val, type_name))
        /\ UNCHANGED callers
        /\ SchemaUnchanged

GetEntitiesIn ==
    \E c \in Callers : \E var \in {PrincipalOrResource, ActionHeadVar} :
        \E euid \in IF var = ActionHeadVar THEN QueryActions ELSE QueryEuids :
            /\ CanCall(c)
            /\ Returns(c, "get_entities_in", <<var, euid>>,
                       get_entities_in(result.val, var, euid))
            /\ UNCHANGED callers
            /\ SchemaUnchanged

\* the sets of EUIDs that get_entities_in_set is asked about
MaxEuids == 2

EuidSequences(euids) == UNION {[1..n -> euids] : n \in 0..MaxEuids}

GetEntitiesInSet ==
    \E c \in Callers : \E var \in {PrincipalOrResource, ActionHeadVar} :
        \E euids \in EuidSequences(IF var = ActionHeadVar THEN QueryActions ELSE QueryEuids) :
            /\ CanCall(c)
            /\ Returns(c, "get_entities_in_set", <<var, euids>>,
                       get_entities_in_set(result.val, var, euids))
            /\ UNCHANGED callers
            /\ SchemaUnchanged

\* action_entities_iter, first loop: the caller now holds action_ancestors
ActionEntitiesIter ==
    \E c \in Callers : \E for \in {"action_entities", "CoreSchema::new"} :
        /\ pc = "done"
        /\ result.ok
        /\ callers[c] = Idle
        /\ callers' = [callers EXCEPT
                          ![c] = [pc |-> "action_entities_iter", query |-> for,
                                  action_ancestors |-> action_ancestors_of(result.val)]]
        /\ UNCHANGED returned
        /\ SchemaUnchanged

\* action_entities: the iterator is consumed by Entities::from_entities
ActionEntities ==
    \E c \in Callers :
        /\ pc = "done"
        /\ result.ok
        /\ returned.caller = ""
        /\ callers[c].pc = "action_entities_iter"
        /\ callers[c].query = "action_entities"
        /\ Returns(c, "action_entities", <<>>,
                   Entities_from_entities(
                       action_entities_from(result.val, callers[c].action_ancestors)))
        /\ callers' = [callers EXCEPT ![c] = Idle]
        /\ SchemaUnchanged

\* CoreSchema::new: the iterator is collected into the map `actions`
CoreSchemaNew ==
    \E c \in Callers :
        /\ pc = "done"
        /\ result.ok
        /\ callers[c].pc = "action_entities_iter"
        /\ callers[c].query = "CoreSchema::new"
        /\ LET entities == action_entities_from(result.val, callers[c].action_ancestors)
               core == [actions |-> [uid \in {e.uid : e \in entities} |->
                                        CHOOSE e \in entities : e.uid = uid]]
           IN  callers' = [callers EXCEPT ![c] = [pc |-> "core_schema", core |-> core]]
        /\ UNCHANGED returned
        /\ SchemaUnchanged

\* the caller holds the CoreSchema that CoreSchema::new returned to it
HoldsCoreSchema(c) ==
    /\ CanCall(c)
    /\ callers[c].pc = "core_schema"

CoreSchemaEntityType ==
    \E c \in Callers : \E entity_type \in QueryEntityTypes :
        /\ HoldsCoreSchema(c)
        /\ Returns(c, "CoreSchema::entity_type", entity_type,
                   CoreSchema_entity_type(result.val, entity_type))
        /\ UNCHANGED callers
        /\ SchemaUnchanged

CoreSchemaAction ==
    \E c \in Callers : \E action \in QueryActions :
        /\ HoldsCoreSchema(c)
        /\ Returns(c, "CoreSchema::action", action,
                   CoreSchema_action(callers[c].core, action))
        /\ UNCHANGED callers
        /\ SchemaUnchanged

CoreSchemaEntityTypesWithBasename ==
    \E c \in Callers : \E basename \in QueryBasenames :
        /\ HoldsCoreSchema(c)
        /\ Returns(c, "CoreSchema::entity_types_with_basename", basename,
                   entity_types_with_basename(result.val, basename))
        /\ UNCHANGED callers
        /\ SchemaUnchanged

CoreSchemaActionEntities ==
    \E c \in Callers :
        /\ HoldsCoreSchema(c)
        /\ Returns(c, "CoreSchema::action_entities", <<>>,
                   CoreSchema_action_entities(callers[c].core))
        /\ UNCHANGED callers
        /\ SchemaUnchanged

\* the caller drops its CoreSchema
Drop ==
    \E c \in Callers :
        /\ callers[c].pc = "core_schema"
        /\ callers' = [callers EXCEPT ![c] = Idle]
        /\ UNCHANGED returned
        /\ SchemaUnchanged

\* the caller takes what its query returned
TakeReturn ==
    /\ returned.caller # ""
    /\ returned' = NoReturn
    /\ UNCHANGED callers
    /\ SchemaUnchanged

Next ==
    \/ MergeNsDef
    \/ InvertEntityParents
    \/ BuildEntityType
    \/ InvertActionParents
    \/ BuildActionId
    \/ ComputeTcEntities
    \/ ComputeTcActions
    \/ CheckForUndeclared
    \/ Retry

Spec == Init /\ [][Next]_vars

(***************************************************************************)
(* Calls of from_schema_fragments on the permutations of the same          *)
(* fragments.                                                              *)
(***************************************************************************)
ReorderNext ==
    \/ MergeNsDef
    \/ InvertEntityParents
    \/ BuildEntityType
    \/ InvertActionParents
    \/ BuildActionId
    \/ ComputeTcEntities
    \/ ComputeTcActions
    \/ CheckForUndeclared
    \/ RetryReordered

ReorderSpec == Init /\ [][ReorderNext]_vars

(***************************************************************************)
(* One call of from_schema_fragments whose schema is then queried by the   *)
(* callers.                                                                *)
(***************************************************************************)
QueryNext ==
    \/ MergeNsDef
    \/ InvertEntityParents
    \/ BuildEntityType
    \/ InvertActionParents
    \/ BuildActionId
    \/ ComputeTcEntities
    \/ ComputeTcActions
    \/ CheckForUndeclared
    \/ GetActionId
    \/ GetEntityType
    \/ IsKnownActionId
    \/ IsKnownEntityType
    \/ KnownActionIds
    \/ KnownEntityTypes
    \/ EntityTypes
    \/ GetContextSchema
    \/ EntityTypeDescriptionNew
    \/ GetEntitiesIn
    \/ GetEntitiesInSet
    \/ ActionEntitiesIter
    \/ ActionEntities
    \/ CoreSchemaNew
    \/ CoreSchemaEntityType
    \/ CoreSchemaAction
    \/ CoreSchemaEntityTypesWithBasename
    \/ CoreSchemaActionEntities
    \/ Drop
    \/ TakeReturn

\* the fragments whose schemas have hierarchies, contexts and namespaces to
\* ask about
QueryFragments == {PhotoAppAdmin, AdminDecl, AdminCycle, SameBaseName, ActionHierarchy}

QueryInit ==
    /\ Init
    /\ \A i \in DOMAIN fragments : fragments[i] \in QueryFragments

QuerySpec == QueryInit /\ [][QueryNext]_vars

(***************************************************************************)
(* One call of from_schema_fragments on fragments that from_schema_fragment *)
(* made of written fragments.                                              *)
(***************************************************************************)
\* the fragments converted one after the other; the first that fails ends
\* the caller's call with its error
RECURSIVE ConvertAll(_, _)
ConvertAll(raws, action_behavior) ==
    IF raws = <<>> THEN {Ok(<<>>)}
    ELSE UNION {IF ~first.ok THEN {first}
                ELSE {IF rest.ok THEN Ok(<<first.val>> \o rest.val) ELSE rest :
                         rest \in ConvertAll(Tail(raws), action_behavior)} :
                   first \in from_schema_fragment(Head(raws), action_behavior)}

NamespaceInputs ==
    {[raws |-> raws, action_behavior |-> action_behavior] :
        raws \in RawInputs, action_behavior \in ActionBehaviors}

NamespaceInit ==
    /\ schema_files \in NamespaceInputs
    /\ fragments = <<>>
    /\ pc = "convert"
    /\ ns_defs = <<>>
    /\ type_defs = EmptyMap
    /\ entity_type_fragments = EmptyMap
    /\ action_fragments = EmptyMap
    /\ entity_children = EmptyMap
    /\ action_children = EmptyMap
    /\ entity_types = EmptyMap
    /\ action_ids = EmptyMap
    /\ result = NoResult
    /\ prev_result = NoResult
    /\ callers = [c \in Callers |-> Idle]
    /\ returned = NoReturn
    /\ codec = NoCodec

\* the caller converts its fragments with `?` and calls
\* from_schema_fragments on what it gets
Convert ==
    /\ pc = "convert"
    /\ \E converted \in ConvertAll(schema_files.raws, schema_files.action_behavior) :
          IF ~converted.ok
          THEN /\ result' = converted
               /\ pc' = "done"
               /\ UNCHANGED <<fragments, ns_defs>>
          ELSE /\ fragments' = converted.val
               /\ ns_defs' = Flatten(converted.val)
               /\ pc' = "merge"
               /\ UNCHANGED result
    /\ UNCHANGED <<type_defs, entity_type_fragments, action_fragments, entity_children,
                   action_children, entity_types, action_ids, prev_result, callers,
                   returned, codec, schema_files>>

NamespaceNext ==
    \/ Convert
    \/ MergeNsDef
    \/ InvertEntityParents
    \/ BuildEntityType
    \/ InvertActionParents
    \/ BuildActionId
    \/ ComputeTcEntities
    \/ ComputeTcActions
    \/ CheckForUndeclared

NamespaceSpec == NamespaceInit /\ [][NamespaceNext]_vars

(***************************************************************************)
(* The decoder and the encoder at work on one JSON value.                  *)
(***************************************************************************)
ConstructionUnchanged ==
    UNCHANGED <<fragments, pc, result, prev_result, locals, callers, returned,
                schema_files>>

Decode ==
    /\ codec.pc = "decode"
    /\ \E decoded \in val_into_restricted_expr(codec.val, codec.expected, codec.ctx) :
          codec' = [codec EXCEPT !.decoded = decoded,
                                 !.pc = IF decoded.ok THEN "encode" ELSE "end"]
    /\ ConstructionUnchanged

Encode ==
    /\ codec.pc = "encode"
    /\ LET encoded == from_expr(codec.decoded.val) IN
       codec' = [codec EXCEPT !.encoded = encoded,
                              !.pc = IF encoded.ok THEN "redecode" ELSE "end"]
    /\ ConstructionUnchanged

Redecode ==
    /\ codec.pc = "redecode"
    /\ \E redecoded \in val_into_restricted_expr(codec.encoded.val,
                                                  codec.expected, codec.ctx) :
          codec' = [codec EXCEPT !.redecoded = redecoded, !.pc = "end"]
    /\ ConstructionUnchanged

DecodeNext ==
    \/ Decode
    \/ Encode
    \/ Redecode

DecodeInit ==
    /\ fragments = <<>>
    /\ pc = "merge"
    /\ ns_defs = <<>>
    /\ type_defs = EmptyMap
    /\ entity_type_fragments = EmptyMap
    /\ action_fragments = EmptyMap
    /\ entity_children = EmptyMap
    /\ action_children = EmptyMap
    /\ entity_types = EmptyMap
    /\ action_ids = EmptyMap
    /\ result = NoResult
    /\ prev_result = NoResult
    /\ callers = [c \in Callers |-> Idle]
    /\ returned = NoReturn
    /\ \E val \in JsonValues : \E expected \in ExpectedTypes : \E ctx \in DecoderContexts :
          codec = CodecInit(val, expected, ctx)
    /\ schema_files = NoSchemaFiles

DecodeSpec == DecodeInit /\ [][DecodeNext]_vars

(***************************************************************************)
(* What the fragments of a call declare and reference, read off the        *)
(* fragments themselves.                                                   *)
(***************************************************************************)
NsDefsOf(frags) == LET flat == Flatten(frags) IN {flat[i] : i \in 1..Len(flat)}

DeclaredCommonTypes(frags) == UNION {DOMAIN d.type_defs : d \in NsDefsOf(frags)}

DeclaredEntityTypes(frags) == UNION {DOMAIN d.entity_types : d \in NsDefsOf(frags)}

DeclaredActions(frags) == UNION {DOMAIN d.actions : d \in NsDefsOf(frags)}

\* the definitions some namespace definition gives for a common type name
DefinitionsOf(frags, name) ==
    {d.type_defs[name] : d \in {n \in NsDefsOf(frags) : name \in DOMAIN n.type_defs}}

\* the declarations of the entity types and of the actions, as sets of
\* <<name, declaration>> pairs
EntityDecls(frags) ==
    UNION {{<<n, d.entity_types[n]>> : n \in DOMAIN d.entity_types} : d \in NsDefsOf(frags)}

ActionDecls(frags) ==
    UNION {{<<a, d.actions[a]>> : a \in DOMAIN d.actions} : d \in NsDefsOf(frags)}

\* the common-type names a type refers to
RECURSIVE CommonTypeRefs(_)
CommonTypeRefs(ty) ==
    CASE ty.tag = "TypeDef" -> {ty.name}
      [] ty.tag = "Set" ->
            IF ty.element_type.some THEN CommonTypeRefs(ty.element_type.val) ELSE {}
      [] ty.tag = "Record" ->
            UNION {CommonTypeRefs(ty.attrs[a].attr_type) : a \in DOMAIN ty.attrs}
      [] OTHER -> {}

\* the entity type names in the lub sets of a type, through records, sets
\* and the common types it refers to
RECURSIVE EntityRefs(_, _)
EntityRefs(ty, frags) ==
    CASE ty.tag = "Entity" -> ty.lub
      [] ty.tag = "TypeDef" ->
            UNION {EntityRefs(def, frags) : def \in DefinitionsOf(frags, ty.name)}
      [] ty.tag = "Set" ->
            IF ty.element_type.some THEN EntityRefs(ty.element_type.val, frags) ELSE {}
      [] ty.tag = "Record" ->
            UNION {EntityRefs(ty.attrs[a].attr_type, frags) : a \in DOMAIN ty.attrs}
      [] OTHER -> {}

ConcreteNames(types) == {t.name : t \in {u \in types : u.kind = "Concrete"}}

\* every entity type name the fragments refer to: in a memberOfTypes list,
\* in a shape, in a context, in an appliesTo list
ReferencedEntityTypes(frags) ==
    UNION {p[2].parents \cup EntityRefs(p[2].attributes, frags) : p \in EntityDecls(frags)}
    \cup UNION {EntityRefs(p[2].context, frags)
                \cup ConcreteNames(p[2].applies_to.principal_types)
                \cup ConcreteNames(p[2].applies_to.resource_types) : p \in ActionDecls(frags)}

\* every action the fragments refer to in a memberOf list
ReferencedActions(frags) == UNION {p[2].parents : p \in ActionDecls(frags)}

UndeclaredEntityTypeRefs(frags) ==
    ReferencedEntityTypes(frags) \ DeclaredEntityTypes(frags)

UndeclaredActionRefs(frags) == ReferencedActions(frags) \ DeclaredActions(frags)

\* the nodes that reach `node` over one or more declared parent edges
RECURSIVE ReachesUp(_, _)
ReachesUp(decls, set) ==
    LET next == set \cup {p[1] : p \in {q \in decls : q[2].parents \cap set # {}}} IN
    IF next = set THEN set ELSE ReachesUp(decls, next)

DeclaredDescendants(decls, node) ==
    LET children == {p[1] : p \in {q \in decls : node \in q[2].parents}} IN
    ReachesUp(decls, children)

Done == pc = "done"

Succeeded == pc = "done" /\ result.ok

Failed(kind) == pc = "done" /\ ~result.ok /\ result.err.kind = kind

(***************************************************************************)
(* C1: in a schema that from_schema_fragments returns, every name in a     *)
(* descendants set, every concrete type of an appliesTo list and every     *)
(* name of an Entity lub set nested in the attribute types of an entity    *)
(* type or in the context of an action is a key of entity_types (entity    *)
(* type names) or of action_ids (action ids).                              *)
(***************************************************************************)
LubNamesInAttributes(attrs) ==
    UNION {EntityRefs(attrs[a].attr_type, <<>>) : a \in DOMAIN attrs}

SchemaIsClosed(schema) ==
    /\ \A e \in DOMAIN schema.entity_types :
         /\ schema.entity_types[e].descendants \subseteq DOMAIN schema.entity_types
         /\ LubNamesInAttributes(schema.entity_types[e].attributes)
               \subseteq DOMAIN schema.entity_types
    /\ \A a \in DOMAIN schema.action_ids :
         /\ schema.action_ids[a].descendants \subseteq DOMAIN schema.action_ids
         /\ ConcreteNames(schema.action_ids[a].applies_to.principal_types)
               \subseteq DOMAIN schema.entity_types
         /\ ConcreteNames(schema.action_ids[a].applies_to.resource_types)
               \subseteq DOMAIN schema.entity_types
         /\ LubNamesInAttributes(schema.action_ids[a].context)
               \subseteq DOMAIN schema.entity_types

C1_ReferencesAreDeclared == result.ok => SchemaIsClosed(result.val)

\* a returned schema with descendants of entity types and of actions, lub
\* sets in attribute types and in a context, and an appliesTo list
C1_Witness ==
    /\ Succeeded
    /\ \E e \in DOMAIN result.val.entity_types :
         result.val.entity_types[e].descendants # {}
    /\ \E e \in DOMAIN result.val.entity_types :
         LubNamesInAttributes(result.val.entity_types[e].attributes) # {}
    /\ \E a \in DOMAIN result.val.action_ids :
         result.val.action_ids[a].descendants # {}
    /\ \E a \in DOMAIN result.val.action_ids :
         ConcreteNames(result.val.action_ids[a].applies_to.principal_types) # {}
    /\ \E a \in DOMAIN result.val.action_ids :
         LubNamesInAttributes(result.val.action_ids[a].context) # {}

(***************************************************************************)
(* C2: in a returned schema the descendants of a node, entity type or      *)
(* action, contain every node that reaches it over one or more declared    *)
(* parent edges.                                                           *)
(***************************************************************************)
C2_DescendantsAreClosed ==
    result.ok =>
        /\ \A z \in DOMAIN result.val.entity_types :
             DeclaredDescendants(EntityDecls(fragments), z)
                \subseteq result.val.entity_types[z].descendants
        /\ \A z \in DOMAIN result.val.action_ids :
             DeclaredDescendants(ActionDecls(fragments), z)
                \subseteq result.val.action_ids[z].descendants

\* X is a member of Y and Y of Z, among the entity types and among the
\* actions of one returned schema
C2_Witness ==
    /\ Succeeded
    /\ \E x, y, z \in DOMAIN result.val.entity_types :
         /\ x # y /\ y # z /\ x # z
         /\ \E p \in EntityDecls(fragments) : p[1] = x /\ y \in p[2].parents
         /\ \E p \in EntityDecls(fragments) : p[1] = y /\ z \in p[2].parents
         /\ x \in result.val.entity_types[z].descendants
    /\ \E x, y, z \in DOMAIN result.val.action_ids :
         /\ x # y /\ y # z /\ x # z
         /\ \E p \in ActionDecls(fragments) : p[1] = x /\ y \in p[2].parents
         /\ \E p \in ActionDecls(fragments) : p[1] = y /\ z \in p[2].parents
         /\ x \in result.val.action_ids[z].descendants

(***************************************************************************)
(* The defects of the fragments of a call, read off the fragments.         *)
(***************************************************************************)
DuplicatedIn(frags, names(_)) ==
    LET flat == Flatten(frags) IN
    {n \in UNION {names(flat[i]) : i \in 1..Len(flat)} :
        \E i, j \in 1..Len(flat) : i < j /\ n \in names(flat[i]) /\ n \in names(flat[j])}

CommonTypeNames(ns_def) == DOMAIN ns_def.type_defs

EntityTypeNames(ns_def) == DOMAIN ns_def.entity_types

ActionNames(ns_def) == DOMAIN ns_def.actions

DuplicateCommonTypes(frags) == DuplicatedIn(frags, CommonTypeNames)

DuplicateEntityTypes(frags) == DuplicatedIn(frags, EntityTypeNames)

DuplicateActions(frags) == DuplicatedIn(frags, ActionNames)

NoDuplicateDeclaration(frags) ==
    /\ DuplicateCommonTypes(frags) = {}
    /\ DuplicateEntityTypes(frags) = {}
    /\ DuplicateActions(frags) = {}

CommonTypeRefsResolve(frags) ==
    /\ \A p \in EntityDecls(frags) :
         CommonTypeRefs(p[2].attributes) \subseteq DeclaredCommonTypes(frags)
    /\ \A p \in ActionDecls(frags) :
         CommonTypeRefs(p[2].context) \subseteq DeclaredCommonTypes(frags)

ResolvesToRecord(ty, frags) ==
    \/ ty.tag = "Record"
    \/ /\ ty.tag = "TypeDef"
       /\ DefinitionsOf(frags, ty.name) # {}
       /\ \A def \in DefinitionsOf(frags, ty.name) : def.tag = "Record"

ShapesAreRecords(frags) ==
    /\ \A p \in EntityDecls(frags) : ResolvesToRecord(p[2].attributes, frags)
    /\ \A p \in ActionDecls(frags) : ResolvesToRecord(p[2].context, frags)

ActionCycleDeclared(frags) ==
    \E a \in DeclaredActions(frags) : a \in DeclaredDescendants(ActionDecls(frags), a)

\* nothing that from_schema_fragments reports before it closes the hierarchies
NoDefectBeforeClosure(frags) ==
    /\ NoDuplicateDeclaration(frags)
    /\ CommonTypeRefsResolve(frags)
    /\ ShapesAreRecords(frags)

DuplicateKinds == {"DuplicateCommonType", "DuplicateEntityType", "DuplicateAction"}

(***************************************************************************)
(* C3, as claimed: if the declared action memberOf graph has a cycle,      *)
(* from_schema_fragments fails with CycleInActionHierarchy.                *)
(***************************************************************************)
C3_CycleIsReported ==
    (Done /\ ActionCycleDeclared(fragments)) => Failed("CycleInActionHierarchy")

(***************************************************************************)
(* C3, amended: if the declared action memberOf graph has a cycle,         *)
(* from_schema_fragments never succeeds, whatever else points into the     *)
(* cycle, and it fails with CycleInActionHierarchy unless a duplicate      *)
(* declaration, an unresolved common type or a shape or context that is    *)
(* no record is reported first; so the action hierarchy of every returned  *)
(* schema is acyclic.                                                      *)
(***************************************************************************)
C3_CycleNeverSucceeds ==
    /\ (Done /\ ActionCycleDeclared(fragments)) => ~result.ok
    /\ (Done /\ ActionCycleDeclared(fragments) /\ NoDefectBeforeClosure(fragments))
          => Failed("CycleInActionHierarchy")
    /\ result.ok =>
          \A a \in DOMAIN result.val.action_ids :
             a \notin DeclaredDescendants(ActionDecls(fragments), a)

\* the cycle error, with an action that is not on the cycle and points into it
C3_Witness ==
    /\ Failed("CycleInActionHierarchy")
    /\ \E a \in DeclaredActions(fragments) :
         /\ a \notin DeclaredDescendants(ActionDecls(fragments), a)
         /\ \E p \in ActionDecls(fragments) :
              /\ p[1] = a
              /\ \E b \in p[2].parents : b \in DeclaredDescendants(ActionDecls(fragments), b)

(***************************************************************************)
(* C4: the set of UndeclaredEntityTypes is exactly the set of the entity   *)
(* type names the fragments refer to (in a memberOfTypes list, in a shape  *)
(* or a context through records and sets, in an appliesTo list) and do not *)
(* declare; the set of UndeclaredActions is exactly the set of the actions *)
(* of the memberOf lists that the fragments do not declare.                *)
(***************************************************************************)
C4_UndeclaredSetsAreExact ==
    /\ Failed("UndeclaredEntityTypes") =>
          result.err.arg = {NameToString(n) : n \in UndeclaredEntityTypeRefs(fragments)}
    /\ Failed("UndeclaredActions") =>
          result.err.arg = {EuidToString(a) : a \in UndeclaredActionRefs(fragments)}

\* three undeclared names reported at once: one of a memberOfTypes list, one
\* nested in an attribute type, one of an appliesTo list
C4_Witness ==
    /\ Failed("UndeclaredEntityTypes")
    /\ \E x, y, z \in UndeclaredEntityTypeRefs(fragments) :
         /\ x # y /\ y # z /\ x # z
         /\ {NameToString(x), NameToString(y), NameToString(z)} \subseteq result.err.arg
         /\ \E p \in EntityDecls(fragments) : x \in p[2].parents
         /\ \E p \in EntityDecls(fragments) : y \in EntityRefs(p[2].attributes, fragments)
         /\ \E p \in ActionDecls(fragments) :
              z \in ConcreteNames(p[2].applies_to.principal_types)

(***************************************************************************)
(* C5: with an undeclared entity type and an undeclared action parent and  *)
(* no earlier defect, the error is UndeclaredEntityTypes;                  *)
(* UndeclaredActions is returned only when no entity type is undeclared.   *)
(***************************************************************************)
C5_EntityTypesFirst ==
    /\ (/\ Done
        /\ UndeclaredEntityTypeRefs(fragments) # {}
        /\ UndeclaredActionRefs(fragments) # {}
        /\ NoDefectBeforeClosure(fragments)
        /\ ~ActionCycleDeclared(fragments)) => Failed("UndeclaredEntityTypes")
    /\ Failed("UndeclaredActions") => UndeclaredEntityTypeRefs(fragments) = {}

\* both kinds of undeclared reference in the fragments of a finished call
C5_Witness ==
    /\ Failed("UndeclaredEntityTypes")
    /\ UndeclaredEntityTypeRefs(fragments) # {}
    /\ UndeclaredActionRefs(fragments) # {}

(***************************************************************************)
(* C6, as claimed: a common-type name, an entity-type name or an action    *)
(* EntityUID that two namespace definitions of the call declare makes the  *)
(* call fail with DuplicateCommonType, DuplicateEntityType or              *)
(* DuplicateAction respectively, carrying that name.                       *)
(***************************************************************************)
C6_EveryDuplicateIsReported ==
    Done =>
        /\ \A n \in DuplicateCommonTypes(fragments) :
             Failed("DuplicateCommonType") /\ result.err.arg = NameToString(n)
        /\ \A n \in DuplicateEntityTypes(fragments) :
             Failed("DuplicateEntityType") /\ result.err.arg = NameToString(n)
        /\ \A a \in DuplicateActions(fragments) :
             Failed("DuplicateAction") /\ result.err.arg = EuidToString(a)

(***************************************************************************)
(* C6, amended: when a fully-qualified common-type name, entity-type name  *)
(* or action EntityUID is declared by two namespace definitions of the     *)
(* call, the call fails with DuplicateCommonType, DuplicateEntityType or   *)
(* DuplicateAction, carrying one fully-qualified name of that kind that is *)
(* declared twice: the duplicate the merge meets first, which need not be  *)
(* every duplicated name nor of every duplicated kind.                     *)
(***************************************************************************)
C6_SomeDuplicateIsReported ==
    (Done /\ ~NoDuplicateDeclaration(fragments)) =>
        \/ /\ Failed("DuplicateCommonType")
           /\ result.err.arg \in {NameToString(n) : n \in DuplicateCommonTypes(fragments)}
        \/ /\ Failed("DuplicateEntityType")
           /\ result.err.arg \in {NameToString(n) : n \in DuplicateEntityTypes(fragments)}
        \/ /\ Failed("DuplicateAction")
           /\ result.err.arg \in {EuidToString(a) : a \in DuplicateActions(fragments)}

\* cross_fragment_duplicate_type: the common type A::MyLong declared twice
C6_Witness ==
    /\ Failed("DuplicateCommonType")
    /\ result.err.arg = "A::MyLong"
    /\ <<"A", "MyLong">> \in DuplicateCommonTypes(fragments)

(***************************************************************************)
(* C7: entity types or actions with the same unqualified name in different *)
(* namespaces never make a duplicate-declaration error, and a returned     *)
(* schema gives each declared entity type and action under its             *)
(* fully-qualified name through get_entity_type and get_action_id.         *)
(***************************************************************************)
BaseName(name) == name[Len(name)]

C7_NamespacesKeepNamesApart ==
    /\ (Done /\ NoDuplicateDeclaration(fragments)) =>
          (result.ok \/ result.err.kind \notin DuplicateKinds)
    /\ result.ok =>
          /\ \A n \in DeclaredEntityTypes(fragments) :
               /\ get_entity_type(result.val, n).some
               /\ get_entity_type(result.val, n).val.name = n
          /\ \A a \in DeclaredActions(fragments) :
               /\ get_action_id(result.val, a).some
               /\ get_action_id(result.val, a).val.name = a

\* a returned schema with two entity types named Baz and two actions "Baz"
C7_Witness ==
    /\ Succeeded
    /\ \E m, n \in DOMAIN result.val.entity_types :
         m # n /\ BaseName(m) = BaseName(n)
    /\ \E a, b \in DOMAIN result.val.action_ids :
         a # b /\ a.id = b.id

(***************************************************************************)
(* C8, as claimed: for the schema of User (memberOf Group), Group, Photo   *)
(* (memberOf Album), Album and view_photo, construction succeeds and the   *)
(* descendants of Group are empty.                                         *)
(***************************************************************************)
C8_GroupHasNoDescendants ==
    (Done /\ fragments = <<PhotoApp>>) =>
        /\ result.ok
        /\ result.val.entity_types[Group].descendants = {}

(***************************************************************************)
(* C8, amended: for that schema construction succeeds and the descendants  *)
(* of Group are {User}; it is User whose descendants are empty.            *)
(***************************************************************************)
C8_GroupHasUserAsDescendant ==
    (Done /\ fragments = <<PhotoApp>>) =>
        /\ result.ok
        /\ result.val.entity_types[Group].descendants = {User}
        /\ result.val.entity_types[User].descendants = {}

\* the call on that schema has returned
C8_Witness == Succeeded /\ fragments = <<PhotoApp>>

(***************************************************************************)
(* C9: two calls of from_schema_fragments on the same fragments return the *)
(* same outcome, the same error when they fail, whatever the iteration     *)
(* order of the hash maps.                                                 *)
(***************************************************************************)
C9_SameOutcomeOnRetry ==
    (Done /\ prev_result # NoResult) => result = prev_result

(***************************************************************************)
(* C10: from_schema_fragments returns a schema exactly when no name is     *)
(* declared twice, every common-type reference resolves, every shape and   *)
(* context resolves to a record, the action hierarchy is acyclic and no    *)
(* undeclared entity type or action is referenced; otherwise it returns an *)
(* error and no schema, not even one of the declarations that are valid.   *)
(***************************************************************************)
WellFormed(frags) ==
    /\ NoDuplicateDeclaration(frags)
    /\ CommonTypeRefsResolve(frags)
    /\ ShapesAreRecords(frags)
    /\ ~ActionCycleDeclared(frags)
    /\ UndeclaredEntityTypeRefs(frags) = {}
    /\ UndeclaredActionRefs(frags) = {}

C10_NoPartialSuccess ==
    Done =>
        /\ result.ok <=> WellFormed(fragments)
        /\ ~result.ok => "val" \notin DOMAIN result
        /\ result.ok =>
              /\ DOMAIN result.val.entity_types = DeclaredEntityTypes(fragments)
              /\ DOMAIN result.val.action_ids = DeclaredActions(fragments)

\* a call that failed after it had built entity types and action ids
C10_Witness ==
    /\ Done
    /\ ~result.ok
    /\ DOMAIN entity_types # {}
    /\ DOMAIN action_ids # {}

(***************************************************************************)
(* C11: the closure of the hierarchies is idempotent and a fixed point.    *)
(* Two calls on the same fragments that both succeed give every entity     *)
(* type and every action the same descendants, and the closure step        *)
(* applied to the tables of a constructed schema succeeds and changes no   *)
(* descendants set.                                                        *)
(***************************************************************************)
DescendantsOf(nodes) == [k \in DOMAIN nodes |-> nodes[k].descendants]

C11_ClosureIsAFixedPoint ==
    Succeeded =>
        /\ LET again == compute_tc(result.val.entity_types, FALSE) IN
              /\ again.ok
              /\ DescendantsOf(again.val) = DescendantsOf(result.val.entity_types)
        /\ LET again == compute_tc(result.val.action_ids, TRUE) IN
              /\ again.ok
              /\ DescendantsOf(again.val) = DescendantsOf(result.val.action_ids)
        /\ prev_result.ok =>
              /\ DescendantsOf(prev_result.val.entity_types)
                    = DescendantsOf(result.val.entity_types)
              /\ DescendantsOf(prev_result.val.action_ids)
                    = DescendantsOf(result.val.action_ids)

\* the second of two successful calls, on hierarchies of depth two: the
\* closure added a descendant that no declaration names as a child
C11_Witness ==
    /\ Succeeded
    /\ prev_result.ok
    /\ \E t \in DOMAIN result.val.entity_types :
          \E d \in result.val.entity_types[t].descendants :
              \A e \in EntityDecls(fragments) : e[1] = d => t \notin e[2].parents
    /\ \E a \in DOMAIN result.val.action_ids :
          \E d \in result.val.action_ids[a].descendants :
              \A e \in ActionDecls(fragments) : e[1] = d => a \notin e[2].parents

(***************************************************************************)
(* C12: in a constructed schema no entity type and no action is a member   *)
(* of its own descendants set.                                             *)
(***************************************************************************)
C12_NoNodeIsItsOwnDescendant ==
    Succeeded =>
        /\ \A t \in DOMAIN result.val.entity_types :
              t \notin result.val.entity_types[t].descendants
        /\ \A a \in DOMAIN result.val.action_ids :
              a \notin result.val.action_ids[a].descendants

(***************************************************************************)
(* C13: cycle detection is asymmetric.  A cycle among declared entity      *)
(* types is not diagnosed: fragments that are well-formed apart from it    *)
(* give a schema, and CycleInActionHierarchy is returned only when the     *)
(* actions have a cycle; a cycle among the actions never gives a schema.   *)
(***************************************************************************)
EntityCycleDeclared(frags) ==
    \E t \in DeclaredEntityTypes(frags) : t \in DeclaredDescendants(EntityDecls(frags), t)

C13_OnlyActionCyclesAreDiagnosed ==
    Done =>
        /\ (EntityCycleDeclared(fragments) /\ WellFormed(fragments)) => result.ok
        /\ Failed("CycleInActionHierarchy") => ActionCycleDeclared(fragments)
        /\ ActionCycleDeclared(fragments) => ~result.ok

\* a schema constructed from entity types that are members of each other
C13_Witness ==
    /\ Succeeded
    /\ EntityCycleDeclared(fragments)
    /\ \E t \in DOMAIN result.val.entity_types :
          \E u \in result.val.entity_types[t].descendants :
              /\ u # t
              /\ t \in result.val.entity_types[u].descendants

(***************************************************************************)
(* C14: the action entities of a schema are exactly one Entity for every   *)
(* declared action: its uid is the action id, its attributes are the       *)
(* literal attributes the action declares, and its ancestors are exactly   *)
(* the actions that have it among their descendants, so that an action in  *)
(* nobody's descendants has no ancestors.                                  *)
(***************************************************************************)
DeclaredAttributes(frags, action) ==
    (CHOOSE p \in ActionDecls(frags) : p[1] = action)[2].attributes

ExpectedActionEntity(action) ==
    [uid |-> action,
     attrs |-> DeclaredAttributes(fragments, action),
     ancestors |-> {b \in DOMAIN result.val.action_ids :
                       action \in result.val.action_ids[b].descendants}]

C14_ActionEntitiesInvertDescendants ==
    Succeeded =>
        /\ action_entities_iter(result.val)
              = {ExpectedActionEntity(a) : a \in DeclaredActions(fragments)}
        /\ returned.query = "action_entities" =>
              /\ returned.ret.ok
              /\ DOMAIN returned.ret.val = DeclaredActions(fragments)
              /\ \A a \in DeclaredActions(fragments) :
                    returned.ret.val[a] = ExpectedActionEntity(a)

\* action_entities has returned an action with an attribute and no
\* ancestors, and an action with its parent and its parent's parent as
\* ancestors
C14_Witness ==
    /\ Succeeded
    /\ returned.query = "action_entities"
    /\ returned.ret.ok
    /\ \E a \in DOMAIN returned.ret.val :
          /\ returned.ret.val[a].ancestors = {}
          /\ DOMAIN returned.ret.val[a].attrs # {}
    /\ \E a \in DOMAIN returned.ret.val :
          \E p \in ActionDecls(fragments) :
              /\ p[1] = a
              /\ Cardinality(p[2].parents) = 1
              /\ Cardinality(returned.ret.val[a].ancestors) = 2

(***************************************************************************)
(* C15: get_context_schema returns None exactly when the action is not a   *)
(* key of the action table, and never an error; for a key it returns a     *)
(* closed record type whose attributes are exactly those of the context    *)
(* the action declares.                                                    *)
(***************************************************************************)
DeclaredContext(frags, action) ==
    (CHOOSE p \in ActionDecls(frags) : p[1] = action)[2].context

ExpectedContextSchema(action) ==
    IF action \notin DeclaredActions(fragments) THEN None
    ELSE Some([ty |-> [tag |-> "Record",
                       attrs |-> resolve_type_defs(DeclaredContext(fragments, action),
                                                   type_defs).val.attrs,
                       open |-> FALSE]])

C15_ContextSchemaOfKnownActions ==
    Succeeded =>
        /\ \A a \in DeclaredActions(fragments) \cup QueryActions :
              /\ get_context_schema(result.val, a) = ExpectedContextSchema(a)
              /\ get_context_schema(result.val, a).some <=> a \in DOMAIN result.val.action_ids
        /\ returned.query = "get_context_schema" =>
              returned.ret = ExpectedContextSchema(returned.arg)

\* the context of an action that declares one has been returned while the
\* schema has another action that the same query does not find
C15_Witness ==
    /\ Succeeded
    /\ returned.query = "get_context_schema"
    /\ returned.ret.some
    /\ returned.ret.val.ty.attrs # EmptyMap
    /\ \E a \in QueryActions : a \notin DOMAIN result.val.action_ids

(***************************************************************************)
(* C16: EntityTypeDescription::new returns None exactly when the type is   *)
(* not a declared entity type.  Otherwise its allowed parent types are     *)
(* exactly the declared entity types that have the type among their        *)
(* descendants, which are all the types the type reaches over declared     *)
(* memberOfTypes edges and not only those it lists itself.                 *)
(***************************************************************************)
\* the entity types that `name` reaches over one or more memberOfTypes edges
DeclaredAncestors(frags, name) ==
    {p \in DeclaredEntityTypes(frags) : name \in DeclaredDescendants(EntityDecls(frags), p)}

ExpectedDescription(name) ==
    IF name \notin DeclaredEntityTypes(fragments) THEN None
    ELSE Some([core_type |-> Concrete(name),
               validator_type |-> result.val.entity_types[name],
               allowed_parent_types |->
                   {Concrete(p) : p \in {q \in DOMAIN result.val.entity_types :
                        name \in result.val.entity_types[q].descendants}}])

C16_AllowedParentsAreAllAncestors ==
    Succeeded =>
        /\ \A n \in DeclaredEntityTypes(fragments) \cup QueryNames :
              LET description == EntityTypeDescription_new(result.val, n) IN
              /\ description = ExpectedDescription(n)
              /\ description.some <=> n \in DeclaredEntityTypes(fragments)
              /\ description.some =>
                    allowed_parent_types(description.val)
                        = {Concrete(p) : p \in DeclaredAncestors(fragments, n)}
        /\ returned.query = "EntityTypeDescription::new" =>
              returned.ret = ExpectedDescription(returned.arg)

\* the description of a type whose allowed parents include a type that it
\* does not list in memberOfTypes
C16_Witness ==
    /\ Succeeded
    /\ returned.query = "EntityTypeDescription::new"
    /\ returned.ret.some
    /\ Concrete(returned.arg) \notin returned.ret.val.allowed_parent_types
    /\ \E p \in returned.ret.val.allowed_parent_types :
          \A e \in EntityDecls(fragments) :
              e[1] = returned.arg => p.name \notin e[2].parents


(***************************************************************************)
(* Shapes and contexts that are not records.                               *)
(***************************************************************************)
\* a declared shape or context that is, or stands for, a type other than a
\* record
ResolvesToNonRecord(ty, frags) ==
    \/ ty.tag \notin {"Record", "TypeDef"}
    \/ /\ ty.tag = "TypeDef"
       /\ \E def \in DefinitionsOf(frags, ty.name) : def.tag # "Record"

NonRecordEntityTypes(frags) ==
    {p[1] : p \in {q \in EntityDecls(frags) : ResolvesToNonRecord(q[2].attributes, frags)}}

NonRecordActions(frags) ==
    {p[1] : p \in {q \in ActionDecls(frags) : ResolvesToNonRecord(q[2].context, frags)}}

EntityTypeShapeOf(name) == [shape |-> "EntityTypeShape", name |-> NameToString(name)]

ActionContextOf(action) == [shape |-> "ActionContext", name |-> EuidToString(action)]

\* C17, as stated: every entity type whose shape, and every action whose
\* context, resolves to a type other than a record makes the call fail with
\* ContextOrShapeNotRecord naming that entity type or that action.
C17_EveryNonRecordIsNamed ==
    Done =>
        /\ \A n \in NonRecordEntityTypes(fragments) :
              Failed("ContextOrShapeNotRecord") /\ result.err.arg = EntityTypeShapeOf(n)
        /\ \A a \in NonRecordActions(fragments) :
              Failed("ContextOrShapeNotRecord") /\ result.err.arg = ActionContextOf(a)

(***************************************************************************)
(* C17: a call on fragments in which the shape of an entity type or the    *)
(* context of an action resolves to a type other than a record never       *)
(* succeeds. When no name is declared twice and every common-type          *)
(* reference of a shape or context resolves, it fails with                 *)
(* ContextOrShapeNotRecord carrying EntityTypeShape and the name of one    *)
(* entity type whose shape is not a record, or, when every shape is a      *)
(* record, ActionContext and the name of one action whose context is not   *)
(* a record. A ContextOrShapeNotRecord error always names such an entity   *)
(* type or action.                                                         *)
(***************************************************************************)
C17_SomeNonRecordIsNamed ==
    Done =>
        LET entities == NonRecordEntityTypes(fragments)
            actions == NonRecordActions(fragments)
        IN  /\ entities # {} \/ actions # {} =>
                  /\ ~result.ok
                  /\ NoDuplicateDeclaration(fragments) /\ CommonTypeRefsResolve(fragments) =>
                        /\ Failed("ContextOrShapeNotRecord")
                        /\ IF entities # {}
                           THEN result.err.arg \in {EntityTypeShapeOf(n) : n \in entities}
                           ELSE result.err.arg \in {ActionContextOf(a) : a \in actions}
            /\ Failed("ContextOrShapeNotRecord") =>
                  result.err.arg \in {EntityTypeShapeOf(n) : n \in entities}
                                     \cup {ActionContextOf(a) : a \in actions}

\* a context that is a common type of another fragment and stands for Long
C17_Witness ==
    /\ Failed("ContextOrShapeNotRecord")
    /\ result.err.arg.shape = "ActionContext"
    /\ Len(fragments) = 2
    /\ \E a \in NonRecordActions(fragments) :
          /\ result.err.arg = ActionContextOf(a)
          /\ \E p \in ActionDecls(fragments) : p[1] = a /\ p[2].context.tag = "TypeDef"


(***************************************************************************)
(* Common types across namespaces and fragments.                           *)
(***************************************************************************)
\* a declared type with every common-type reference replaced by the one
\* definition the fragments give that name
RECURSIVE ResolvedAgainst(_, _)
ResolvedAgainst(ty, frags) ==
    CASE ty.tag = "TypeDef" -> CHOOSE def \in DefinitionsOf(frags, ty.name) : TRUE
      [] ty.tag = "Set" /\ ty.element_type.some ->
            [ty EXCEPT !.element_type = Some(ResolvedAgainst(ty.element_type.val, frags))]
      [] ty.tag = "Record" ->
            [ty EXCEPT !.attrs =
                [a \in DOMAIN ty.attrs |->
                    [ty.attrs[a] EXCEPT !.attr_type = ResolvedAgainst(ty.attrs[a].attr_type, frags)]]]
      [] OTHER -> ty

\* the common-type names that shapes and contexts refer to and that no
\* fragment declares
UndeclaredCommonTypeRefs(frags) ==
    (UNION {CommonTypeRefs(p[2].attributes) : p \in EntityDecls(frags)}
       \cup UNION {CommonTypeRefs(p[2].context) : p \in ActionDecls(frags)})
    \ DeclaredCommonTypes(frags)

\* C18, as stated: a reference to a common type that no fragment declares
\* makes the call fail with UndeclaredCommonTypes.
C18_UndeclaredCommonTypeIsReported ==
    Done /\ UndeclaredCommonTypeRefs(fragments) # {} => Failed("UndeclaredCommonTypes")

(***************************************************************************)
(* C18: common-type references are resolved against the common types of    *)
(* all fragments of the call. In a schema that is returned, the attributes *)
(* of every entity type and the context of every action are the declared   *)
(* ones with each reference replaced by the definition of that name,       *)
(* whichever namespace or fragment declares it. A call on fragments that   *)
(* refer to a common type declared nowhere never succeeds; it fails with   *)
(* UndeclaredCommonTypes when no name is declared twice and every shape    *)
(* and context is otherwise a record, and an UndeclaredCommonTypes error   *)
(* carries only names that are referenced and declared nowhere.            *)
(***************************************************************************)
C18_ResolvedAgainstAllFragments ==
    Done =>
        /\ result.ok =>
              /\ \A p \in EntityDecls(fragments) :
                    Some(result.val.entity_types[p[1]].attributes)
                        = record_attributes_or_none(ResolvedAgainst(p[2].attributes, fragments))
              /\ \A p \in ActionDecls(fragments) :
                    Some(result.val.action_ids[p[1]].context)
                        = record_attributes_or_none(ResolvedAgainst(p[2].context, fragments))
        /\ UndeclaredCommonTypeRefs(fragments) # {} =>
              /\ ~result.ok
              /\ /\ NoDuplicateDeclaration(fragments)
                 /\ NonRecordEntityTypes(fragments) = {}
                 /\ NonRecordActions(fragments) = {}
                 => Failed("UndeclaredCommonTypes")
        /\ Failed("UndeclaredCommonTypes") =>
              /\ result.err.arg # {}
              /\ result.err.arg
                    \subseteq {NameToString(n) : n \in UndeclaredCommonTypeRefs(fragments)}

\* a schema built from two fragments, one declaring the common types that an
\* entity type of the other refers to
C18_Witness ==
    /\ Succeeded
    /\ Len(fragments) = 2
    /\ \E p \in EntityDecls(<<fragments[2]>>) :
          /\ CommonTypeRefs(p[2].attributes) # {}
          /\ CommonTypeRefs(p[2].attributes) \subseteq DeclaredCommonTypes(<<fragments[1]>>)
          /\ CommonTypeRefs(p[2].attributes) \cap DeclaredCommonTypes(<<fragments[2]>>) = {}
          /\ \E a \in DOMAIN result.val.entity_types[p[1]].attributes :
                /\ p[2].attributes.attrs[a].attr_type.tag = "TypeDef"
                /\ result.val.entity_types[p[1]].attributes[a].attr_type.tag = "Long"


(***************************************************************************)
(* Queries by concurrent callers.                                          *)
(***************************************************************************)
\* what a query gives when it is the only one running, from start to end,
\* on the schema
QueryAlone(schema, query, arg) ==
    CASE query = "get_action_id" -> get_action_id(schema, arg)
      [] query = "get_entity_type" -> get_entity_type(schema, arg)
      [] query = "is_known_action_id" -> is_known_action_id(schema, arg)
      [] query = "is_known_entity_type" -> is_known_entity_type(schema, arg)
      [] query = "known_action_ids" -> known_action_ids(schema)
      [] query = "known_entity_types" -> known_entity_types(schema)
      [] query = "entity_types" -> entity_types_iter(schema)
      [] query = "get_context_schema" -> get_context_schema(schema, arg)
      [] query = "EntityTypeDescription::new" -> EntityTypeDescription_new(schema, arg)
      [] query = "get_entities_in" -> get_entities_in(schema, arg[1], arg[2])
      [] query = "get_entities_in_set" -> get_entities_in_set(schema, arg[1], arg[2])
      [] query = "action_entities" -> action_entities(schema)
      [] query = "CoreSchema::entity_type" -> CoreSchema_entity_type(schema, arg)
      [] query = "CoreSchema::action" -> CoreSchema_action(CoreSchema_new(schema), arg)
      [] query = "CoreSchema::entity_types_with_basename" ->
            entity_types_with_basename(schema, arg)
      [] query = "CoreSchema::action_entities" ->
            CoreSchema_action_entities(CoreSchema_new(schema))

\* a step taken once the schema has been returned
QueryStepIsReadOnly ==
    pc = "done" /\ result.ok =>
        /\ pc' = "done"
        /\ result' = result
        /\ entity_types' = entity_types
        /\ action_ids' = action_ids
        /\ returned.caller = "" /\ returned'.caller # "" =>
              returned'.ret = QueryAlone(result.val, returned'.query, returned'.arg)

(***************************************************************************)
(* C19: a constructed schema is read-only. Whatever the callers do, in     *)
(* whatever order their queries and the steps of their queries interleave, *)
(* no step changes the entity types or the action ids of the schema, and   *)
(* every query returns what it returns when it runs alone on the schema.   *)
(***************************************************************************)
C19_QueriesLeaveTheSchemaAlone == [][QueryStepIsReadOnly]_vars

\* a caller gets an action from the CoreSchema it made while another caller
\* is in the middle of action_entities
C19_Witness ==
    /\ Succeeded
    /\ returned.query = "CoreSchema::action"
    /\ returned.ret.some
    /\ returned.ret.val.ancestors # {}
    /\ \E c \in Callers :
          /\ c # returned.caller
          /\ callers[c].pc = "action_entities_iter"
          /\ callers[c].query = "action_entities"
    /\ callers[returned.caller].pc = "core_schema"


(***************************************************************************)
(* C20: in a schema that from_schema_fragments returns, the keys of the    *)
(* entity-type table are exactly the fully-qualified names of the entity   *)
(* types that the fragments declare and the keys of the action table are   *)
(* exactly the declared actions, each entry being the one built for its    *)
(* key; a call on no fragments succeeds and both its tables are empty.     *)
(***************************************************************************)
C20_TablesHoldExactlyTheDeclarations ==
    Done =>
        /\ result.ok =>
              /\ DOMAIN result.val.entity_types = DeclaredEntityTypes(fragments)
              /\ DOMAIN result.val.action_ids = DeclaredActions(fragments)
              /\ \A n \in DOMAIN result.val.entity_types :
                    result.val.entity_types[n].name = n
              /\ \A a \in DOMAIN result.val.action_ids :
                    result.val.action_ids[a].name = a
              /\ Cardinality(DOMAIN result.val.entity_types) = Cardinality(EntityDecls(fragments))
              /\ Cardinality(DOMAIN result.val.action_ids) = Cardinality(ActionDecls(fragments))
        /\ fragments = <<>> =>
              /\ result.ok
              /\ DOMAIN result.val.entity_types = {}
              /\ DOMAIN result.val.action_ids = {}

\* a schema built from two fragments that both declare entity types
C20_Witness ==
    /\ Succeeded
    /\ Len(fragments) = 2
    /\ DeclaredEntityTypes(<<fragments[1]>>) # {}
    /\ DeclaredEntityTypes(<<fragments[2]>>) # {}
    /\ DeclaredActions(fragments) # {}
    /\ DeclaredEntityTypes(<<fragments[1]>>) \cup DeclaredEntityTypes(<<fragments[2]>>)
          = DOMAIN result.val.entity_types


(***************************************************************************)
(* The appliesTo lists.                                                    *)
(***************************************************************************)
\* the entity types of the appliesTo lists of the declared actions
AppliesToTypes(frags) ==
    UNION {p[2].applies_to.principal_types \cup p[2].applies_to.resource_types :
              p \in ActionDecls(frags)}

\* the Concrete ones among them that no fragment declares
UndeclaredAppliesTo(frags) ==
    {t.name : t \in {u \in AppliesToTypes(frags) :
                        u.kind = "Concrete" /\ u.name \notin DeclaredEntityTypes(frags)}}

(***************************************************************************)
(* C21: the Unspecified entity type of an appliesTo list is never reported *)
(* as undeclared and does not make the call fail: fragments that are well  *)
(* formed and list Unspecified give a schema. Every Concrete entity type   *)
(* of an appliesTo list that no fragment declares keeps the call from      *)
(* succeeding and is a member of the set that UndeclaredEntityTypes        *)
(* carries.                                                                *)
(***************************************************************************)
C21_UnspecifiedIsExempt ==
    Done =>
        /\ Unspecified \in AppliesToTypes(fragments) /\ WellFormed(fragments) => result.ok
        /\ UndeclaredAppliesTo(fragments) # {} => ~result.ok
        /\ Failed("UndeclaredEntityTypes") =>
              /\ EntityTypeToString(Unspecified) \notin result.err.arg
              /\ NameToString(Unspecified.name) \notin result.err.arg
              /\ \A n \in UndeclaredAppliesTo(fragments) : NameToString(n) \in result.err.arg
              /\ \A n \in DeclaredEntityTypes(fragments) : NameToString(n) \notin result.err.arg

\* an undeclared Concrete principal type reported for an action whose
\* resource type is Unspecified
C21_Witness ==
    /\ Failed("UndeclaredEntityTypes")
    /\ \E p \in ActionDecls(fragments) :
          /\ Unspecified \in p[2].applies_to.resource_types
          /\ \E t \in p[2].applies_to.principal_types :
                /\ t.kind = "Concrete"
                /\ t.name \in UndeclaredAppliesTo(fragments)
                /\ NameToString(t.name) \in result.err.arg


(***************************************************************************)
(* Names as written and the names they stand for.                          *)
(***************************************************************************)
\* the namespace entries of written fragments
RawEntries(raws) == UNION {{raws[i][j] : j \in 1..Len(raws[i])} : i \in 1..Len(raws)}

\* an unqualified name stands for NS::name, a qualified one for itself
StandsFor(namespace, written) ==
    IF Len(written) = 1 THEN namespace \o written ELSE written

RawDeclaredEntityTypes(raws) ==
    UNION {{e.namespace \o <<b>> : b \in DOMAIN e.ns_def.entityTypes} : e \in RawEntries(raws)}

RawDeclaredActions(raws) ==
    UNION {{EUID(e.namespace \o <<"Action">>, id) : id \in DOMAIN e.ns_def.actions} :
              e \in RawEntries(raws)}

\* <<child, parent>> for every entry of a memberOfTypes list
RawEntityEdges(raws) ==
    UNION {UNION {{<<e.namespace \o <<b>>, StandsFor(e.namespace, w)>> :
                      w \in e.ns_def.entityTypes[b].memberOfTypes} :
                  b \in DOMAIN e.ns_def.entityTypes} : e \in RawEntries(raws)}

\* <<child, parent>> for every entry of a memberOf list
RawActionEdges(raws) ==
    UNION {UNION {{<<EUID(e.namespace \o <<"Action">>, id),
                     EUID(IF m.type.some THEN StandsFor(e.namespace, m.type.val)
                          ELSE e.namespace \o <<"Action">>, m.id)>> :
                      m \in e.ns_def.actions[id].memberOf} :
                  id \in DOMAIN e.ns_def.actions} : e \in RawEntries(raws)}

\* the entity types the appliesTo lists name
RawAppliesToNames(raws) ==
    UNION {UNION {IF e.ns_def.actions[id].appliesTo.some
                  THEN {StandsFor(e.namespace, w) :
                           w \in e.ns_def.actions[id].appliesTo.val.principalTypes
                                 \cup e.ns_def.actions[id].appliesTo.val.resourceTypes}
                  ELSE {} :
                  id \in DOMAIN e.ns_def.actions} : e \in RawEntries(raws)}

RawUndeclaredEntityTypes(raws) ==
    ({edge[2] : edge \in RawEntityEdges(raws)} \cup RawAppliesToNames(raws))
    \ RawDeclaredEntityTypes(raws)

RawUndeclaredActions(raws) ==
    {edge[2] : edge \in RawActionEdges(raws)} \ RawDeclaredActions(raws)

(***************************************************************************)
(* C22: a name written inside a namespace NS without "::" stands for       *)
(* NS::name and a name written with "::" stands for itself, from the root. *)
(* So a schema that is returned has the declared names under NS, every     *)
(* written member is a descendant of the name its memberOf entry stands    *)
(* for, and the undeclared names that a failed call reports are the names  *)
(* the written ones stand for: Bar::Group written inside Foo is reported   *)
(* as Bar::Group, never as Foo::Bar::Group, and Foo::Action written inside *)
(* ExampleCo::Personnel is not ExampleCo::Personnel::Foo::Action.          *)
(***************************************************************************)
C22_QualifiedNamesStartAtTheRoot ==
    Done =>
        LET raws == schema_files.raws IN
        /\ RawUndeclaredEntityTypes(raws) # {} \/ RawUndeclaredActions(raws) # {}
              => ~result.ok
        /\ result.ok =>
              /\ DOMAIN result.val.entity_types = RawDeclaredEntityTypes(raws)
              /\ DOMAIN result.val.action_ids = RawDeclaredActions(raws)
              /\ \A edge \in RawEntityEdges(raws) :
                    edge[1] \in result.val.entity_types[edge[2]].descendants
              /\ \A edge \in RawActionEdges(raws) :
                    edge[1] \in result.val.action_ids[edge[2]].descendants
        /\ Failed("UndeclaredEntityTypes") =>
              result.err.arg = {NameToString(n) : n \in RawUndeclaredEntityTypes(raws)}
        /\ Failed("UndeclaredActions") =>
              result.err.arg = {EuidToString(a) : a \in RawUndeclaredActions(raws)}

\* Bar::Group written inside Foo next to Foo::Group: only Bar::Group is
\* reported, under that name
C22_Witness ==
    /\ Failed("UndeclaredEntityTypes")
    /\ schema_files.raws = <<RawMemberOfOtherNamespace>>
    /\ result.err.arg = {"Bar::Group"}
    /\ <<"Foo", "Group">> \in DOMAIN entity_types


(***************************************************************************)
(* C25: a CoreSchema made from a schema answers action(uid) with           *)
(* Some(entity) exactly when uid is a declared action, and the entity is   *)
(* the one that action_entities_iter makes for uid, with the declared      *)
(* attributes and the ancestors; action_entities() is exactly one entity   *)
(* for every declared action; entity_type(Unspecified) is None and         *)
(* entity_type(Concrete(n)) is Some exactly when n is a declared entity    *)
(* type.                                                                   *)
(***************************************************************************)
C25_CoreSchemaAnswersFromTheSchema ==
    Succeeded =>
        /\ returned.query = "CoreSchema::action" =>
              /\ returned.ret.some <=> returned.arg \in DeclaredActions(fragments)
              /\ returned.ret.some =>
                    /\ returned.ret.val = ExpectedActionEntity(returned.arg)
                    /\ returned.ret.val \in action_entities_iter(result.val)
        /\ returned.query = "CoreSchema::action_entities" =>
              /\ returned.ret = {ExpectedActionEntity(a) : a \in DeclaredActions(fragments)}
              /\ Cardinality(returned.ret) = Cardinality(DeclaredActions(fragments))
        /\ returned.query = "CoreSchema::entity_type" =>
              /\ returned.arg.kind = "Unspecified" => ~returned.ret.some
              /\ returned.arg.kind = "Concrete" =>
                    /\ returned.ret.some <=> returned.arg.name \in DeclaredEntityTypes(fragments)
                    /\ returned.ret = ExpectedDescription(returned.arg.name)

\* a CoreSchema that knows one of the actions asked for and not the other
\* has returned the entity of the one it knows, with its ancestors
C25_Witness ==
    /\ Succeeded
    /\ returned.query = "CoreSchema::action"
    /\ returned.ret.some
    /\ returned.ret.val.uid = returned.arg
    /\ returned.ret.val.ancestors # {}
    /\ \E a \in QueryActions : a \notin DeclaredActions(fragments)


(***************************************************************************)
(* The defects of the fragments, by the phase that reports them.           *)
(***************************************************************************)
\* an entity type whose shape refers to an undeclared common type or is not
\* a record
EntityShapeDefect(frags) ==
    \E p \in EntityDecls(frags) :
        \/ ~(CommonTypeRefs(p[2].attributes) \subseteq DeclaredCommonTypes(frags))
        \/ ResolvesToNonRecord(p[2].attributes, frags)

\* the same of an action and its context
ActionContextDefect(frags) ==
    \E p \in ActionDecls(frags) :
        \/ ~(CommonTypeRefs(p[2].context) \subseteq DeclaredCommonTypes(frags))
        \/ ResolvesToNonRecord(p[2].context, frags)

UndeclaredReference(frags) ==
    UndeclaredEntityTypeRefs(frags) # {} \/ UndeclaredActionRefs(frags) # {}

ShapeKinds == {"UndeclaredCommonTypes", "ContextOrShapeNotRecord"}

UndeclaredKinds == {"UndeclaredEntityTypes", "UndeclaredActions"}

(***************************************************************************)
(* C26: of several defects, from_schema_fragments reports the one of the   *)
(* earliest phase: a duplicate declaration before anything else; then an   *)
(* unresolved common type or a shape that is no record of an entity type,  *)
(* then the same of an action's context; then CycleInActionHierarchy; and  *)
(* UndeclaredEntityTypes or UndeclaredActions only when nothing else is    *)
(* wrong. An action cycle together with an undeclared entity type gives    *)
(* CycleInActionHierarchy, a shape that is no record together with an      *)
(* undeclared reference gives ContextOrShapeNotRecord.                     *)
(***************************************************************************)
C26_EarliestPhaseIsReported ==
    Done =>
        IF ~NoDuplicateDeclaration(fragments)
        THEN ~result.ok /\ result.err.kind \in DuplicateKinds
        ELSE IF EntityShapeDefect(fragments)
        THEN /\ ~result.ok
             /\ result.err.kind \in ShapeKinds
             /\ result.err.kind = "ContextOrShapeNotRecord" =>
                   result.err.arg.shape = "EntityTypeShape"
        ELSE IF ActionContextDefect(fragments)
        THEN /\ ~result.ok
             /\ result.err.kind \in ShapeKinds
             /\ result.err.kind = "ContextOrShapeNotRecord" =>
                   result.err.arg.shape = "ActionContext"
        ELSE IF ActionCycleDeclared(fragments)
        THEN Failed("CycleInActionHierarchy")
        ELSE IF UndeclaredReference(fragments)
        THEN ~result.ok /\ result.err.kind \in UndeclaredKinds
        ELSE result.ok

\* an action cycle reported for fragments that also refer to an undeclared
\* entity type
C26_Witness ==
    /\ Failed("CycleInActionHierarchy")
    /\ UndeclaredEntityTypeRefs(fragments) # {}

\* a shape that is no record reported for fragments that also refer to an
\* undeclared entity type
C26_ShapeBeforeUndeclared ==
    /\ Failed("ContextOrShapeNotRecord")
    /\ UndeclaredReference(fragments)


(***************************************************************************)
(* C27: the outcome of from_schema_fragments does not depend on the order  *)
(* of the fragments. A call on the fragments and the call before it, on    *)
(* the same fragments in another order, both fail or both succeed, and     *)
(* when they succeed their schemas have the same entity_types and the same *)
(* action_ids.                                                             *)
(***************************************************************************)
C27_FragmentOrderDoesNotMatter ==
    (Done /\ prev_result # NoResult) =>
        /\ result.ok = prev_result.ok
        /\ result.ok =>
              /\ result.val.entity_types = prev_result.val.entity_types
              /\ result.val.action_ids = prev_result.val.action_ids

\* the schema of the fragment that uses a common type followed by the one
\* that declares it, after the schema of the two the other way round
C27_Witness ==
    /\ Done
    /\ fragments = <<UserA, CommonTypesA>>
    /\ prev_result.ok
    /\ result.ok
    /\ DOMAIN result.val.entity_types # {}


(***************************************************************************)
(* What a walk down the hierarchy from an EUID is to yield.                *)
(***************************************************************************)
\* the declared k that the head variable takes from the EUID, if there is
\* one: the EUID itself for an action, its entity type otherwise
DeclaredComponent(var, euid) ==
    IF var = ActionHeadVar
    THEN IF euid \in DeclaredActions(fragments) THEN {euid} ELSE {}
    ELSE IF euid.ty.kind = "Unspecified" THEN {}
    ELSE IF euid.ty.name \in DeclaredEntityTypes(fragments) THEN {euid.ty.name} ELSE {}

DescendantsInSchema(var, k) ==
    IF var = ActionHeadVar
    THEN result.val.action_ids[k].descendants
    ELSE result.val.entity_types[k].descendants

\* every descendant of k once, and k itself once more
YieldedFrom(var, euid) ==
    LET ks == DeclaredComponent(var, euid) IN
    IF ks = {} THEN EmptyBag
    ELSE LET k == CHOOSE k \in ks : TRUE
         IN  SetToBag(DescendantsInSchema(var, k)) (+) SetToBag({k})

RECURSIVE YieldedFromAll(_, _)
YieldedFromAll(var, euids) ==
    IF euids = <<>> THEN EmptyBag
    ELSE YieldedFrom(var, Head(euids)) (+) YieldedFromAll(var, Tail(euids))

(***************************************************************************)
(* C28: get_entities_in(var, euid) yields the members of descendants(k)    *)
(* together with k itself when k is declared, where k is the EUID for an   *)
(* action head variable and the entity type of the EUID for a principal or *)
(* resource; it yields nothing when k is not declared or when the entity   *)
(* type is Unspecified. get_entities_in_set yields what get_entities_in    *)
(* yields for each of its EUIDs, one after the other.                      *)
(***************************************************************************)
C28_DescendantsAndTheNodeItself ==
    /\ returned.query = "get_entities_in" =>
          returned.ret = YieldedFrom(returned.arg[1], returned.arg[2])
    /\ returned.query = "get_entities_in_set" =>
          returned.ret = YieldedFromAll(returned.arg[1], returned.arg[2])

\* two EUIDs, the first of a declared entity type that has descendants
C28_Witness ==
    /\ returned.query = "get_entities_in_set"
    /\ returned.arg[1] = PrincipalOrResource
    /\ Len(returned.arg[2]) = 2
    /\ DeclaredComponent(PrincipalOrResource, returned.arg[2][1]) # {}
    /\ BagCardinality(YieldedFrom(PrincipalOrResource, returned.arg[2][1])) > 1
    /\ DeclaredComponent(PrincipalOrResource, returned.arg[2][2]) = {}
    /\ returned.ret = YieldedFrom(PrincipalOrResource, returned.arg[2][1])


(***************************************************************************)
(* C29: for every constructed schema and every EUID, get_entities_in       *)
(* yields no element more than once: the node that is asked about is not   *)
(* also yielded from its own descendants set.                              *)
(***************************************************************************)
C29_NoElementTwice ==
    returned.query = "get_entities_in" =>
        \A k \in BagToSet(returned.ret) : CopiesIn(k, returned.ret) = 1


(***************************************************************************)
(* The closure of the declared memberOf edges of the actions, recomputed   *)
(* from the fragments.                                                     *)
(***************************************************************************)
DeclaredParents(frags, action) ==
    UNION {p[2].parents : p \in {q \in ActionDecls(frags) : q[1] = action}}

RecomputedAncestors(frags, action) ==
    {b \in DeclaredActions(frags) :
        action \in DeclaredDescendants(ActionDecls(frags), b)}

(***************************************************************************)
(* C30: the ancestor sets of the action entities that action_entities      *)
(* hands to Entities::from_entities are transitively closed and have no    *)
(* cycle, so the hierarchy it returns with the closure assumed already     *)
(* computed is the one that recomputing the closure from the declared      *)
(* memberOf edges gives.                                                   *)
(***************************************************************************)
C30_AncestorsAreAlreadyClosed ==
    returned.query = "action_entities" =>
        /\ returned.ret.ok
        /\ \A a \in DOMAIN returned.ret.val :
              LET ancestors == returned.ret.val[a].ancestors IN
              /\ a \notin ancestors
              /\ \A b \in ancestors :
                    /\ b \in DOMAIN returned.ret.val
                    /\ returned.ret.val[b].ancestors \subseteq ancestors
              /\ ancestors = RecomputedAncestors(fragments, a)

\* an action whose declared parent has a declared parent of its own, which
\* is in the ancestors of the action as well
C30_Witness ==
    /\ returned.query = "action_entities"
    /\ returned.ret.ok
    /\ \E a \in DOMAIN returned.ret.val :
          \E b \in DeclaredParents(fragments, a) :
              \E c \in DeclaredParents(fragments, b) :
                  /\ c \notin DeclaredParents(fragments, a)
                  /\ {b, c} \subseteq returned.ret.val[a].ancestors


(***************************************************************************)
(* The restricted expressions that the encoder has no JSON for.            *)
(***************************************************************************)
RECURSIVE UsesUnsupportedCall(_)
UsesUnsupportedCall(expr) ==
    IF expr.kind = "ExtensionFunctionApp"
    THEN \/ Len(expr.args) # 1
         \/ UsesUnsupportedCall(expr.args[1])
    ELSE IF expr.kind = "Set" THEN \E e \in expr.elems : UsesUnsupportedCall(e)
    ELSE IF expr.kind = "Record" THEN \E f \in expr.fields : UsesUnsupportedCall(f.value)
    ELSE FALSE

RECURSIVE UsesReservedKey(_)
UsesReservedKey(expr) ==
    IF expr.kind = "ExtensionFunctionApp"
    THEN \E i \in DOMAIN expr.args : UsesReservedKey(expr.args[i])
    ELSE IF expr.kind = "Set" THEN \E e \in expr.elems : UsesReservedKey(e)
    ELSE IF expr.kind = "Record"
    THEN \E f \in expr.fields : f.key \in {"__entity", "__extn"} \/ UsesReservedKey(f.value)
    ELSE FALSE

(***************************************************************************)
(* C24: round trip. A decoded restricted value that has no extension call  *)
(* of no or of two or more arguments, and no record with a reserved escape *)
(* key, is encoded to JSON without an error, and decoding that JSON with   *)
(* the same expected type gives a value equal to it.                       *)
(***************************************************************************)
C24_RoundTrip ==
    (/\ codec.pc = "end"
     /\ codec.decoded.ok
     /\ ~UsesUnsupportedCall(codec.decoded.val)
     /\ ~UsesReservedKey(codec.decoded.val)) =>
        /\ codec.encoded.ok
        /\ codec.redecoded.ok
        /\ codec.redecoded.val = codec.decoded.val

\* a record whose string was decoded to a call of the implicit constructor
\* of the expected extension type, encoded with the escape and decoded again
C24_Witness ==
    /\ codec.pc = "end"
    /\ codec.expected = ExpectedRecord
    /\ codec.val = JObject(<<Member("a", JLong(1)), Member("b", JString("10.0.0.1"))>>)
    /\ codec.decoded.ok
    /\ \E f \in codec.decoded.val.fields : f.value.kind = "ExtensionFunctionApp"
    /\ codec.encoded.ok
    /\ codec.encoded.val # codec.val
    /\ codec.redecoded = codec.decoded

====
